---- MODULE Spec2Model ----
(***************************************************************************)
(* Model of the 360 Table LWC configurator (Data360Configurator): the      *)
(* query template assembly and the $record merge-token resolution.         *)
(*                                                                         *)
(* Strings that the code scans, splices or concatenates are sequences of   *)
(* one-character strings; identifiers the code only compares (record ids,  *)
(* config ids, enumerations) are TLA+ strings with "" for the empty one.   *)
(* An Apex call in flight is an element of the bag pending; the part of a  *)
(* handler after its await is the action that takes the call out again.    *)
(***************************************************************************)
EXTENDS Integers, Sequences, FiniteSets, Bags, TLC

\* ------------------------------------------------------------------------
\* Bounds of the model
\* ------------------------------------------------------------------------

\* Apex calls that may be in flight at once.
MaxInFlight == 2

\* Entries of a saved field list.
MaxSaved == 3

\* ------------------------------------------------------------------------
\* Strings
\* ------------------------------------------------------------------------

Digits == <<"0", "1", "2", "3", "4", "5", "6", "7", "8", "9">>

\* The regular expression class \w.
WordChars ==
  { "A", "B", "C", "D", "E", "F", "G", "H", "I", "J", "K", "L", "M",
    "N", "O", "P", "Q", "R", "S", "T", "U", "V", "W", "X", "Y", "Z",
    "a", "b", "c", "d", "e", "f", "g", "h", "i", "j", "k", "l", "m",
    "n", "o", "p", "q", "r", "s", "t", "u", "v", "w", "x", "y", "z",
    "0", "1", "2", "3", "4", "5", "6", "7", "8", "9", "_" }

\* The text '$record.' that starts a merge token.
RecordSigil == <<"$", "r", "e", "c", "o", "r", "d", ".">>

kwSELECT == <<"S", "E", "L", "E", "C", "T", " ">>
kwFROM == <<" ", "F", "R", "O", "M", " ">>
kwLIMIT == <<" ", "L", "I", "M", "I", "T", " ">>
kwNULL == <<"N", "U", "L", "L">>
kwTrue == <<"t", "r", "u", "e">>
kwFalse == <<"f", "a", "l", "s", "e">>

\* s has p at position i.
HasAt(s, i, p) ==
  /\ i >= 1
  /\ i + Len(p) - 1 <= Len(s)
  /\ SubSeq(s, i, i + Len(p) - 1) = p

\* String.prototype.indexOf, 1-based; 0 when p does not occur in s.
IndexOf(s, p) ==
  LET hits == { i \in 1..Len(s) : HasAt(s, i, p) }
  IN  IF hits = {} THEN 0 ELSE CHOOSE i \in hits : \A j \in hits : i <= j

\* Number of leading characters of s that are in the class \w.
RECURSIVE WordRun(_)
WordRun(s) ==
  IF s = <<>> \/ Head(s) \notin WordChars THEN 0 ELSE 1 + WordRun(Tail(s))

\* String(n) for a natural number n.
RECURSIVE NatToStr(_)
NatToStr(n) ==
  IF n < 10 THEN <<Digits[n + 1]>>
  ELSE NatToStr(n \div 10) \o <<Digits[(n % 10) + 1]>>

\* Array.prototype.join.
RECURSIVE Join(_, _)
Join(parts, sep) ==
  IF parts = <<>> THEN <<>>
  ELSE IF Len(parts) = 1 THEN parts[1]
  ELSE parts[1] \o sep \o Join(Tail(parts), sep)

\* String.prototype.trim for the space character.
RECURSIVE TrimLeft(_)
TrimLeft(s) == IF s # <<>> /\ Head(s) = " " THEN TrimLeft(Tail(s)) ELSE s

RECURSIVE TrimRight(_)
TrimRight(s) ==
  IF s # <<>> /\ s[Len(s)] = " " THEN TrimRight(SubSeq(s, 1, Len(s) - 1)) ELSE s

Trim(s) == TrimRight(TrimLeft(s))

\* The elements of a sequence, each once, in order of first appearance
\* ([...new Set(xs)]).
RECURSIVE Distinct(_)
Distinct(xs) ==
  IF xs = <<>> THEN <<>>
  ELSE LET init == Distinct(SubSeq(xs, 1, Len(xs) - 1))
           x == xs[Len(xs)]
       IN  IF \E i \in 1..Len(init) : init[i] = x THEN init ELSE Append(init, x)

Range(xs) == { xs[i] : i \in 1..Len(xs) }

\* ------------------------------------------------------------------------
\* Merge tokens: scanning and substitution
\* ------------------------------------------------------------------------

\* fullQuery.match(/\$record\.(\w+)/g) followed by m.replace('$record.', ''):
\* the field names of the matches, left to right.  A match is the sigil and
\* the longest run of \w after it (at least one); the scan goes on behind it.
RECURSIVE MatchTokens(_)
MatchTokens(s) ==
  IF s = <<>> THEN <<>>
  ELSE IF HasAt(s, 1, RecordSigil)
    THEN LET rest == SubSeq(s, Len(RecordSigil) + 1, Len(s))
             n == WordRun(rest)
         IN  IF n > 0
               THEN <<SubSeq(rest, 1, n)>> \o MatchTokens(SubSeq(rest, n + 1, Len(rest)))
               ELSE MatchTokens(Tail(s))
    ELSE MatchTokens(Tail(s))

\* resolved.split(token).join(replacement): every occurrence of token, found
\* left to right without overlap, replaced.
RECURSIVE SplitJoin(_, _, _)
SplitJoin(s, token, replacement) ==
  LET i == IndexOf(s, token)
  IN  IF i = 0 THEN s
      ELSE SubSeq(s, 1, i - 1) \o replacement
             \o SplitJoin(SubSeq(s, i + Len(token), Len(s)), token, replacement)

\* Values of a context record field as Apex hands them over.
NullValue == [t |-> "null"]
NumberValue(n) == [t |-> "number", n |-> n]
BooleanValue(b) == [t |-> "boolean", b |-> b]
StringValue(s) == [t |-> "string", s |-> s]

\* this._contextFieldValues[fieldName]; undefined when the key is absent.
Lookup(values, fieldName) ==
  IF fieldName \in DOMAIN values THEN values[fieldName] ELSE [t |-> "undefined"]

\* String(value).
ValueToStr(value) ==
  CASE value.t = "number" -> NatToStr(value.n)
    [] value.t = "boolean" -> (IF value.b THEN kwTrue ELSE kwFalse)
    [] value.t = "string" -> value.s
    [] OTHER -> <<>>

\* A slip that quotes every value that is not null.
LiteralOfQuoteAll(value) ==
  IF value.t \in {"null", "undefined"} THEN kwNULL
  ELSE <<"'">> \o ValueToStr(value) \o <<"'">>

\* The text substituted for a token whose value is value.
LiteralOf(value) ==
  IF value.t \in {"null", "undefined"} THEN kwNULL
  ELSE IF value.t \in {"number", "boolean"} THEN ValueToStr(value)
  ELSE <<"'">> \o ValueToStr(value) \o <<"'">>

\* The loop over this._mergeTokens of resolvedPreviewQueryString, with
\* literals[token] the literal of the token's value.
RECURSIVE SubstituteLiterals(_, _, _)
SubstituteLiterals(raw, tokens, literals) ==
  IF tokens = <<>> THEN raw
  ELSE SubstituteLiterals(
         SplitJoin(raw, RecordSigil \o Head(tokens), literals[Head(tokens)]),
         Tail(tokens), literals)

SubstituteTokens(raw, tokens, values) ==
  SubstituteLiterals(raw, tokens,
                     [token \in Range(tokens) |-> LiteralOf(Lookup(values, token))])

\* ------------------------------------------------------------------------
\* Inputs: what the user can enter and what the Apex services answer
\* ------------------------------------------------------------------------

sA == <<"A">>
sB == <<"B">>
sZ == <<"Z">>
sT == <<"T">>
sG == <<"G">>
sId == <<"I", "d">>
sNm == <<"N", "m">>
sN == <<"N">>
sK == <<"K">>
sNX == <<"N", "X">>

\* getDataCloudFields: the fields of a Data Cloud object, none for an
\* object that does not exist.
Schema(objectApiName) ==
  CASE objectApiName = sA ->
         << [fieldName |-> sId, label |-> <<"I">>], [fieldName |-> sNm, label |-> <<"L">>] >>
    [] objectApiName = sB -> << [fieldName |-> sNm, label |-> <<"M">>] >>
    [] objectApiName = sT ->
         << [fieldName |-> sId, label |-> <<"I">>], [fieldName |-> sNm, label |-> <<"L">>],
            [fieldName |-> sG, label |-> <<"g">>] >>
    [] OTHER -> <<>>

\* Filter clauses: one token; two tokens, the first of them twice.
WhereOne == <<"W", "H", "E", "R", "E", " ", "x", "=">> \o RecordSigil \o sN
WhereTwo == WhereOne \o <<" ", "O", "R", " ", "y", "=">> \o RecordSigil \o sK
               \o <<" ", "O", "R", " ", "z", "=">> \o RecordSigil \o sN
\* Two tokens, the name of the first a prefix of the name of the second.
WherePrefix == WhereOne \o <<" ", "O", "R", " ", "y", "=">> \o RecordSigil \o sNX

\* Objects the context picker offers (CONTEXT_OBJECTS).
ContextC == [apiName |-> <<"C">>, label |-> <<"c">>]
ContextD == [apiName |-> <<"D">>, label |-> <<"d">>]

\* Records the record picker can hand over; "" when the picker is cleared.
RecordIds == { "", "r1", "r2" }

\* getRecordFieldValues: the value of a field of a context record.
RecordValue(objectApiName, recordId, fieldName) ==
  CASE objectApiName = <<"C">> /\ recordId = "r1" /\ fieldName = sN ->
         StringValue(<<"O", "'", "B">>)
    [] objectApiName = <<"C">> /\ recordId = "r1" /\ fieldName = sK -> NumberValue(5)
    [] objectApiName = <<"C">> /\ recordId = "r1" -> BooleanValue(TRUE)
    [] objectApiName = <<"C">> /\ recordId = "r2" /\ fieldName = sN ->
         StringValue(<<"A", "c">>)
    [] objectApiName = <<"C">> /\ recordId = "r2" /\ fieldName = sK -> NullValue
    [] objectApiName = <<"C">> /\ recordId = "r2" -> NumberValue(40)
    [] OTHER -> BooleanValue(FALSE)

\* The answers getRecordFieldValues can give to a call: the values of the
\* requested fields, or null.
FetchResults(call) ==
  { [isNull |-> FALSE,
     map |-> [f \in Range(call.fieldNames) |->
                RecordValue(call.objectApiName, call.recordId, f)]],
    [isNull |-> TRUE, map |-> <<>>] }

\* Parsed Config_JSON__c of the saved configurations.  A key that the JSON
\* lacks is has* = FALSE, "" or <<>>; limit is [t |-> "undefined"] then.
NoViewState ==
  [fieldVisibilityFilter |-> "", contextObjectApiName |-> <<>>,
   contextObjectLabel |-> <<>>, contextObjectSearchTerm |-> <<>>,
   contextRecordId |-> ""]

JsonFull ==
  [objectApiName |-> sA,
   whereClause |-> WhereOne,
   limit |-> NumberValue(7),
   hasFields |-> TRUE,
   fields |-> << [fieldName |-> sNm, label |-> <<"n">>, visible |-> TRUE, sortable |-> "false"],
                 [fieldName |-> <<"G">>, label |-> <<"g">>, visible |-> TRUE, sortable |-> "true"] >>,
   defaultSortField |-> sNm,
   defaultSortDirection |-> "desc",
   showRecordCount |-> TRUE, showSearch |-> FALSE, showRefresh |-> TRUE,
   hasViewState |-> TRUE,
   viewState |-> [fieldVisibilityFilter |-> "selected", contextObjectApiName |-> <<"C">>,
                  contextObjectLabel |-> <<"c">>,
                  contextObjectSearchTerm |-> <<"c", " ", "(", "C", ")">>,
                  contextRecordId |-> "r1"]]

JsonLegacy ==
  [objectApiName |-> sB,
   whereClause |-> <<>>,
   limit |-> [t |-> "undefined"],
   hasFields |-> TRUE,
   fields |-> << [fieldName |-> sNm, label |-> <<"m">>, visible |-> TRUE, sortable |-> "absent"] >>,
   defaultSortField |-> <<>>,
   defaultSortDirection |-> "",
   showRecordCount |-> FALSE, showSearch |-> FALSE, showRefresh |-> FALSE,
   hasViewState |-> FALSE,
   viewState |-> NoViewState]

JsonNoObject ==
  [objectApiName |-> <<>>,
   whereClause |-> WhereOne,
   limit |-> NumberValue(0),
   hasFields |-> FALSE,
   fields |-> <<>>,
   defaultSortField |-> <<>>,
   defaultSortDirection |-> "",
   showRecordCount |-> FALSE, showSearch |-> FALSE, showRefresh |-> FALSE,
   hasViewState |-> TRUE,
   viewState |-> [fieldVisibilityFilter |-> "", contextObjectApiName |-> <<"D">>,
                  contextObjectLabel |-> <<"d">>,
                  contextObjectSearchTerm |-> <<>>,
                  contextRecordId |-> "r2"]]

JsonContext ==
  [objectApiName |-> sB,
   whereClause |-> WhereOne,
   limit |-> NumberValue(100),
   hasFields |-> TRUE,
   fields |-> << [fieldName |-> sNm, label |-> <<"M">>, visible |-> TRUE, sortable |-> "true"] >>,
   defaultSortField |-> <<>>,
   defaultSortDirection |-> "asc",
   showRecordCount |-> FALSE, showSearch |-> FALSE, showRefresh |-> FALSE,
   hasViewState |-> TRUE,
   viewState |-> [fieldVisibilityFilter |-> "all", contextObjectApiName |-> <<"C">>,
                  contextObjectLabel |-> <<"c">>,
                  contextObjectSearchTerm |-> <<"c", " ", "(", "C", ")">>,
                  contextRecordId |-> "r1"]]

\* getConfigs: Data_360_Table_Config__c records on the server.  The
\* Config_JSON__c of ConfigBad is not JSON.
ConfigFull ==
  [Id |-> "cFull", Name |-> <<"f">>, Description__c |-> <<"d">>, malformed |-> FALSE, json |-> JsonFull]
ConfigLegacy ==
  [Id |-> "cOld", Name |-> <<"o">>, Description__c |-> <<>>, malformed |-> FALSE, json |-> JsonLegacy]
ConfigNoObject ==
  [Id |-> "cNoObj", Name |-> <<"n">>, Description__c |-> <<>>, malformed |-> FALSE, json |-> JsonNoObject]
ConfigBad ==
  [Id |-> "cBad", Name |-> <<"b">>, Description__c |-> <<"x">>, malformed |-> TRUE, json |-> JsonNoObject]
ConfigContext ==
  [Id |-> "cCtx", Name |-> <<"x">>, Description__c |-> <<>>, malformed |-> FALSE, json |-> JsonContext]

\* A configuration saved for an object that has no fields any more.
JsonGone == [JsonLegacy EXCEPT !.objectApiName = sZ]
ConfigGone ==
  [Id |-> "cGone", Name |-> <<"z">>, Description__c |-> <<>>, malformed |-> FALSE, json |-> JsonGone]

\* ------------------------------------------------------------------------
\* State of the configurator
\* ------------------------------------------------------------------------

VARIABLES
  selectedConfigId, configName, configDescription,
  selectedObject, objectApiNameInput, whereClause, rowLimit, fields,
  defaultSortField, defaultSortDirection, showRecordCount, showSearch, showRefresh,
  fieldVisibilityFilter, isLoading,
  contextObjectApiName, contextObjectLabel, contextObjectSearchTerm, contextRecordId,
  _contextFieldValues, _mergeTokens, _configsMap,
  pending,   \* bag of the Apex calls in flight, each with what its caller resumes with
  toast,     \* title of the toast the last step showed, "" when it showed none
  connected, \* connectedCallback has run
  showDeleteModal,
  _dragFieldName  \* <<>> when undefined or null

configVars == <<selectedConfigId, configName, configDescription>>
objectVars == <<selectedObject, objectApiNameInput>>
optionVars ==
  <<defaultSortField, defaultSortDirection, showRecordCount, showSearch, showRefresh,
    fieldVisibilityFilter>>
contextVars ==
  <<contextObjectApiName, contextObjectLabel, contextObjectSearchTerm, contextRecordId>>

\* State of the table (Data360Table).  Its properties recordId, objectApiName,
\* configName and its field isLoading carry the prefix 'table' here.
VARIABLES
  tableRecordId, tableObjectApiName, tableConfigName, columnLabels,
  _queryString, _queryStringInitialized,
  tableData, tableColumns, keyField, sortedBy, sortedDirection,
  tableIsLoading, errorMessage,
  _mergeMap, _objectApiName, _objectInfo, _getRecordFields, _assembledQuery,
  _columnLabelsMap,
  tableConnected  \* connectedCallback of the table has run

apiVars == <<tableRecordId, tableObjectApiName, tableConfigName, columnLabels>>
sortVars == <<sortedBy, sortedDirection>>
mergeVars == <<_mergeMap, _objectApiName, _objectInfo, _getRecordFields>>
resultVars == <<tableData, tableColumns, keyField>>

tableVars ==
  <<apiVars, _queryString, _queryStringInitialized, resultVars, sortVars,
    tableIsLoading, errorMessage, mergeVars, _assembledQuery, _columnLabelsMap,
    tableConnected>>

vars ==
  <<configVars, objectVars, whereClause, rowLimit, fields, optionVars, isLoading,
    contextVars, _contextFieldValues, _mergeTokens, _configsMap, pending, toast,
    connected, showDeleteModal, _dragFieldName, tableVars>>

\* Truthiness of a row limit (this.rowLimit || 100, parsed.limit || 100).
Truthy(value) ==
  CASE value.t = "number" -> value.n # 0
    [] value.t = "string" -> value.s # <<>>
    [] value.t = "boolean" -> value.b
    [] OTHER -> FALSE

DefaultLimit == NumberValue(100)

VisibleFields(fs) == SelectSeq(fs, LAMBDA f : f.visible)

FieldNames(fs) == [i \in 1..Len(fs) |-> fs[i].fieldName]

\* A slip that compiles a query although no field is visible.
PreviewQueryStringAnyFields(fs, objectName, where, limit) ==
  IF objectName = <<>> THEN <<>>
  ELSE kwSELECT \o Join(FieldNames(VisibleFields(fs)), <<",", " ">>) \o kwFROM \o objectName
         \o <<" ">> \o where
         \o kwLIMIT \o ValueToStr(IF Truthy(limit) THEN limit ELSE DefaultLimit)

\* A slip that selects the hidden fields too.
PreviewQueryStringAllFields(fs, objectName, where, limit) ==
  IF objectName = <<>> \/ VisibleFields(fs) = <<>> THEN <<>>
  ELSE kwSELECT \o Join(FieldNames(fs), <<",", " ">>) \o kwFROM \o objectName
         \o <<" ">> \o where
         \o kwLIMIT \o ValueToStr(IF Truthy(limit) THEN limit ELSE DefaultLimit)

\* get previewQueryString, of the given state.
PreviewQueryString(fs, objectName, where, limit) ==
  IF objectName = <<>> \/ VisibleFields(fs) = <<>> THEN <<>>
  ELSE kwSELECT \o Join(FieldNames(VisibleFields(fs)), <<",", " ">>) \o kwFROM \o objectName
         \o <<" ">> \o where
         \o kwLIMIT \o ValueToStr(IF Truthy(limit) THEN limit ELSE DefaultLimit)

previewQueryString == PreviewQueryString(fields, selectedObject, whereClause, rowLimit)

\* A slip that keeps every match, without the Set.
ParseMergeTokensKeepAll(fullQuery) ==
  IF fullQuery = <<>> THEN <<>> ELSE MatchTokens(fullQuery)

\* _parseMergeTokens: the token list it stores for the given compiled query.
ParseMergeTokens(fullQuery) ==
  IF fullQuery = <<>> THEN <<>> ELSE Distinct(MatchTokens(fullQuery))

\* A slip that never looks at the record id.
ResolvedPreviewNoRecordCheck(raw, tokens, recordId, values) ==
  IF raw = <<>> THEN <<>>
  ELSE IF tokens = <<>> THEN raw
  ELSE IF DOMAIN values = {} THEN <<>>
  ELSE SubstituteTokens(raw, tokens, values)

\* get resolvedPreviewQueryString, of the given state.
ResolvedPreview(raw, tokens, recordId, values) ==
  IF raw = <<>> THEN <<>>
  ELSE IF tokens = <<>> THEN raw
  ELSE IF recordId = "" THEN <<>>
  ELSE IF DOMAIN values = {} THEN <<>>
  ELSE SubstituteTokens(raw, tokens, values)

resolvedPreviewQueryString ==
  ResolvedPreview(previewQueryString, _mergeTokens, contextRecordId, _contextFieldValues)

\* get mergeTokenStatusText, by the message it shows.
mergeTokenStatusText ==
  IF _mergeTokens = <<>> THEN ""
  ELSE IF contextRecordId = "" THEN "select a context record to resolve"
  ELSE IF DOMAIN _contextFieldValues # {} THEN "token(s) resolved"
  ELSE "Fetching field value(s)..."

\* fieldData.map(f => ({fieldName, label, visible: true, sortable: true})).
FieldsFromDiscovery(fieldData) ==
  [i \in 1..Len(fieldData) |->
     [fieldName |-> fieldData[i].fieldName, label |-> fieldData[i].label,
      visible |-> TRUE, sortable |-> TRUE]]

\* ------------------------------------------------------------------------
\* Calls in flight
\* ------------------------------------------------------------------------

InFlight == BagCardinality(pending)
Calls(kind) == { c \in BagToSet(pending) : c.kind = kind }
Issue(bag, call) == bag (+) SetToBag({call})
Complete(bag, call) == bag (-) SetToBag({call})

\* this._showToast(title, ...); "" when the step shows none.
Toast(title) == toast' = title

\* A slip that fetches without a context object.
FetchGuardNoObject(objectApiName, recordId, tokens) == recordId # "" /\ tokens # <<>>

\* The guard of _fetchContextFieldValues.
FetchGuard(objectApiName, recordId, tokens) ==
  objectApiName # <<>> /\ recordId # "" /\ tokens # <<>>

FetchCall(objectApiName, recordId, tokens) ==
  [kind |-> "getRecordFieldValues", objectApiName |-> objectApiName,
   recordId |-> recordId, fieldNames |-> tokens]

\* The configurator after construction.
InitConfigurator ==
  /\ selectedConfigId = "" /\ configName = <<>> /\ configDescription = <<>>
  /\ selectedObject = <<>> /\ objectApiNameInput = <<>>
  /\ whereClause = <<>> /\ rowLimit = NumberValue(100) /\ fields = <<>>
  /\ defaultSortField = <<>> /\ defaultSortDirection = "asc"
  /\ showRecordCount = FALSE /\ showSearch = FALSE /\ showRefresh = FALSE
  /\ fieldVisibilityFilter = "all" /\ isLoading = FALSE
  /\ contextObjectApiName = <<>> /\ contextObjectLabel = <<>>
  /\ contextObjectSearchTerm = <<>> /\ contextRecordId = ""
  /\ _contextFieldValues = <<>> /\ _mergeTokens = <<>>
  /\ _configsMap = {}
  /\ pending = EmptyBag
  /\ toast = ""
  /\ connected = FALSE
  /\ showDeleteModal = FALSE
  /\ _dragFieldName = <<>>

\* The table after construction and after its host has set the properties
\* recordId, objectApiName, configName, columnLabels and queryString (the
\* setter stores the query string only: the table is not initialized yet).
InitTable(recordId, objectApiName, name, labels, queryString) ==
  /\ tableRecordId = recordId /\ tableObjectApiName = objectApiName
  /\ tableConfigName = name /\ columnLabels = labels
  /\ _queryString = queryString /\ _queryStringInitialized = FALSE
  /\ tableData = <<>> /\ tableColumns = <<>> /\ keyField = "Id"
  /\ sortedBy = <<>> /\ sortedDirection = "asc"
  /\ tableIsLoading = FALSE /\ errorMessage = ""
  /\ _mergeMap = <<>> /\ _objectApiName = <<>> /\ _objectInfo = <<>>
  /\ _getRecordFields = <<>> /\ _assembledQuery = <<>>
  /\ _columnLabelsMap = <<>>
  /\ tableConnected = FALSE

\* The configurator on its page, and a table no host has given a property.
Init == InitConfigurator /\ InitTable("", <<>>, <<>>, <<>>, <<>>)

\* ------------------------------------------------------------------------
\* Handlers
\* ------------------------------------------------------------------------

CapOk == BagCardinality(pending') <= MaxInFlight

\* connectedCallback: _loadConfigs up to its await of getConfigs.
ConnectedCallback ==
  /\ ~connected
  /\ connected' = TRUE
  /\ pending' = Issue(pending, [kind |-> "getConfigs", caller |-> "connectedCallback"])
  /\ Toast("")
  /\ UNCHANGED <<configVars, objectVars, whereClause, rowLimit, fields, optionVars,
                 isLoading, contextVars, _contextFieldValues, _mergeTokens, _configsMap>>
  /\ UNCHANGED <<showDeleteModal, _dragFieldName, tableVars>>

\* _loadConfigs after getConfigs resolved, called from connectedCallback.
LoadConfigsResolve(call, configs) ==
  /\ call \in Calls("getConfigs") /\ call.caller = "connectedCallback"
  /\ _configsMap' = configs
  /\ pending' = Complete(pending, call)
  /\ Toast("")
  /\ UNCHANGED <<connected, configVars, objectVars, whereClause, rowLimit, fields, optionVars,
                 isLoading, contextVars, _contextFieldValues, _mergeTokens>>
  /\ UNCHANGED <<showDeleteModal, _dragFieldName, tableVars>>

\* _loadConfigs after getConfigs rejected, called from connectedCallback.
LoadConfigsReject(call) ==
  /\ call \in Calls("getConfigs") /\ call.caller = "connectedCallback"
  /\ pending' = Complete(pending, call)
  /\ Toast("Error")
  /\ UNCHANGED <<connected, configVars, objectVars, whereClause, rowLimit, fields, optionVars,
                 isLoading, contextVars, _contextFieldValues, _mergeTokens, _configsMap>>
  /\ UNCHANGED <<showDeleteModal, _dragFieldName, tableVars>>

\* The assignments of handleNew.
NewState ==
  /\ selectedConfigId' = "" /\ configName' = <<>> /\ configDescription' = <<>>
  /\ selectedObject' = <<>> /\ objectApiNameInput' = <<>>
  /\ whereClause' = <<>> /\ rowLimit' = NumberValue(100) /\ fields' = <<>>
  /\ fieldVisibilityFilter' = "all"
  /\ defaultSortField' = <<>> /\ defaultSortDirection' = "asc"
  /\ showRecordCount' = FALSE /\ showSearch' = FALSE /\ showRefresh' = FALSE
  /\ contextObjectApiName' = <<>> /\ contextObjectLabel' = <<>>
  /\ contextObjectSearchTerm' = <<>> /\ contextRecordId' = ""
  /\ _contextFieldValues' = <<>> /\ _mergeTokens' = <<>>

HandleNew ==
  /\ connected
  /\ NewState
  /\ Toast("")
  /\ UNCHANGED <<connected, isLoading, _configsMap, pending>>
  /\ UNCHANGED <<showDeleteModal, _dragFieldName, tableVars>>

\* loadedFieldMap.get(fieldName): the last loaded field of that name, if any.
LoadedIndex(loaded, fieldName) ==
  LET hits == { i \in 1..Len(loaded) : loaded[i].fieldName = fieldName }
  IN  IF hits = {} THEN 0 ELSE CHOOSE i \in hits : \A j \in hits : j <= i

\* A slip that builds orderedFields with unshift: the saved fields that are
\* loaded, last saved first.
RECURSIVE SavedKeptUnshift(_, _)
SavedKeptUnshift(saved, loaded) ==
  IF saved = <<>> THEN <<>>
  ELSE LET cf == Head(saved)
           i == LoadedIndex(loaded, cf.fieldName)
       IN  SavedKeptUnshift(Tail(saved), loaded)
             \o (IF i = 0 THEN <<>>
                 ELSE << [fieldName |-> loaded[i].fieldName, label |-> cf.label,
                          visible |-> cf.visible, sortable |-> (cf.sortable # "false")] >>)

\* A slip that takes a saved field without the sortable key as not sortable
\* (sortable: cf.sortable === true).
RECURSIVE SavedKeptAbsentNotSortable(_, _)
SavedKeptAbsentNotSortable(saved, loaded) ==
  IF saved = <<>> THEN <<>>
  ELSE LET cf == Head(saved)
           i == LoadedIndex(loaded, cf.fieldName)
       IN  (IF i = 0 THEN <<>>
            ELSE << [fieldName |-> loaded[i].fieldName, label |-> cf.label,
                     visible |-> cf.visible, sortable |-> (cf.sortable = "true")] >>)
             \o SavedKeptAbsentNotSortable(Tail(saved), loaded)

\* The first loop of the reconciliation: the saved fields that are loaded,
\* in saved order, with the saved visible and label.
RECURSIVE SavedKept(_, _)
SavedKept(saved, loaded) ==
  IF saved = <<>> THEN <<>>
  ELSE LET cf == Head(saved)
           i == LoadedIndex(loaded, cf.fieldName)
       IN  (IF i = 0 THEN <<>>
            ELSE << [fieldName |-> loaded[i].fieldName, label |-> cf.label,
                     visible |-> cf.visible, sortable |-> (cf.sortable # "false")] >>)
             \o SavedKept(Tail(saved), loaded)

\* A slip that forgets the second loop: the loaded fields the saved list
\* does not name are left out.
ReconcileSavedOnly(saved, loaded) == SavedKept(saved, loaded)

\* A slip that keeps the loaded order: every loaded field, with the visible
\* and label of the last saved field of its name, hidden when none.
ReconcileInLoadedOrder(saved, loaded) ==
  [i \in 1..Len(loaded) |->
     LET hits == { j \in 1..Len(saved) : saved[j].fieldName = loaded[i].fieldName }
     IN  IF hits = {}
           THEN [loaded[i] EXCEPT !.visible = FALSE, !.sortable = TRUE]
           ELSE LET cf == saved[CHOOSE j \in hits : \A k \in hits : k <= j]
                IN  [fieldName |-> loaded[i].fieldName, label |-> cf.label,
                     visible |-> cf.visible, sortable |-> (cf.sortable # "false")]]

\* The reconciliation of handleConfigSelect (if (parsed.fields) { ... }).
ReconcileFields(saved, loaded) ==
  LET seen == { saved[i].fieldName : i \in { j \in 1..Len(saved) :
                                              LoadedIndex(loaded, saved[j].fieldName) # 0 } }
      fresh == SelectSeq(loaded, LAMBDA f : f.fieldName \notin seen)
  IN  SavedKept(saved, loaded)
        \o [i \in 1..Len(fresh) |-> [fresh[i] EXCEPT !.visible = FALSE, !.sortable = TRUE]]

\* handleConfigSelect from 'this.defaultSortField = ...' to its end, with the
\* fields this.fields holds at that point and the calls in flight then.
ConfigSelectTail(parsed, loaded, objectName, where, limit, bag, title) ==
  LET vs == IF parsed.hasViewState THEN parsed.viewState ELSE NoViewState
      newFields == IF parsed.hasFields THEN ReconcileFields(parsed.fields, loaded) ELSE loaded
      tokens == ParseMergeTokens(PreviewQueryString(newFields, objectName, where, limit))
      fetch == /\ vs.contextRecordId # "" /\ tokens # <<>>
               /\ FetchGuard(vs.contextObjectApiName, vs.contextRecordId, tokens)
  IN  /\ defaultSortField' = parsed.defaultSortField
      /\ defaultSortDirection' =
           (IF parsed.defaultSortDirection = "" THEN "asc" ELSE parsed.defaultSortDirection)
      /\ showRecordCount' = parsed.showRecordCount
      /\ showSearch' = parsed.showSearch
      /\ showRefresh' = parsed.showRefresh
      /\ fieldVisibilityFilter' =
           (IF vs.fieldVisibilityFilter = "" THEN "all" ELSE vs.fieldVisibilityFilter)
      /\ contextObjectApiName' = vs.contextObjectApiName
      /\ contextObjectLabel' = vs.contextObjectLabel
      /\ contextObjectSearchTerm' = vs.contextObjectSearchTerm
      /\ contextRecordId' = vs.contextRecordId
      /\ _contextFieldValues' = <<>>
      /\ fields' = newFields
      /\ _mergeTokens' = tokens
      /\ pending' = (IF fetch
                       THEN Issue(bag, FetchCall(vs.contextObjectApiName, vs.contextRecordId, tokens))
                       ELSE bag)
      /\ Toast(title)

\* handleConfigSelect up to its first await, or to its end when it awaits
\* nothing.
HandleConfigSelect(configId) ==
  /\ connected
  /\ IF configId = ""
       THEN /\ NewState
            /\ Toast("")
            /\ UNCHANGED <<isLoading, _configsMap, pending>>
       ELSE \E config \in _configsMap :
              /\ config.Id = configId
              /\ selectedConfigId' = configId
              /\ configName' = config.Name
              /\ configDescription' = config.Description__c
              /\ UNCHANGED _configsMap
              /\ IF config.malformed
                   THEN /\ Toast("Error")
                        /\ UNCHANGED <<objectVars, whereClause, rowLimit, fields, optionVars,
                                       isLoading, contextVars, _contextFieldValues,
                                       _mergeTokens, pending>>
                   ELSE LET parsed == config.json IN
                        /\ selectedObject' = parsed.objectApiName
                        /\ whereClause' = parsed.whereClause
                        /\ rowLimit' = (IF Truthy(parsed.limit) THEN parsed.limit ELSE DefaultLimit)
                        /\ objectApiNameInput' = parsed.objectApiName
                        /\ IF parsed.objectApiName # <<>>
                             THEN /\ isLoading' = TRUE
                                  /\ pending' = Issue(pending,
                                       [kind |-> "getDataCloudFields", caller |-> "handleConfigSelect",
                                        objectApiName |-> parsed.objectApiName, parsed |-> parsed])
                                  /\ Toast("")
                                  /\ UNCHANGED <<fields, optionVars, contextVars,
                                                 _contextFieldValues, _mergeTokens>>
                             ELSE /\ UNCHANGED isLoading
                                  /\ ConfigSelectTail(parsed, fields, selectedObject', whereClause',
                                                      rowLimit', pending, "")
  /\ CapOk
  /\ UNCHANGED connected
  /\ UNCHANGED <<showDeleteModal, _dragFieldName, tableVars>>

\* _loadFieldsForObject after getDataCloudFields resolved, then the rest of
\* the handleConfigSelect that awaited it.
ConfigSelectResolve(call) ==
  /\ call \in Calls("getDataCloudFields") /\ call.caller = "handleConfigSelect"
  /\ isLoading' = FALSE
  /\ ConfigSelectTail(call.parsed, FieldsFromDiscovery(Schema(call.objectApiName)),
                      selectedObject, whereClause, rowLimit, Complete(pending, call), "")
  /\ UNCHANGED <<connected, configVars, objectVars, whereClause, rowLimit, _configsMap>>
  /\ UNCHANGED <<showDeleteModal, _dragFieldName, tableVars>>

\* _loadFieldsForObject after getDataCloudFields rejected, then the rest of
\* the handleConfigSelect that awaited it.
ConfigSelectReject(call) ==
  /\ call \in Calls("getDataCloudFields") /\ call.caller = "handleConfigSelect"
  /\ isLoading' = FALSE
  /\ ConfigSelectTail(call.parsed, <<>>, selectedObject, whereClause, rowLimit,
                      Complete(pending, call), "Field Discovery Error")
  /\ UNCHANGED <<connected, configVars, objectVars, whereClause, rowLimit, _configsMap>>
  /\ UNCHANGED <<showDeleteModal, _dragFieldName, tableVars>>

HandleObjectNameChange(value) ==
  /\ connected
  /\ objectApiNameInput' = value
  /\ IF selectedObject # <<>> /\ value # selectedObject
       THEN selectedObject' = <<>> /\ fields' = <<>>
       ELSE UNCHANGED <<selectedObject, fields>>
  /\ Toast("")
  /\ UNCHANGED <<connected, configVars, whereClause, rowLimit, optionVars, isLoading, contextVars,
                 _contextFieldValues, _mergeTokens, _configsMap, pending>>
  /\ UNCHANGED <<showDeleteModal, _dragFieldName, tableVars>>

\* handleLoadFields up to its await of getDataCloudFields.
HandleLoadFields ==
  /\ connected
  /\ objectApiNameInput # <<>>
  /\ isLoading' = TRUE
  /\ pending' = Issue(pending, [kind |-> "getDataCloudFields", caller |-> "handleLoadFields",
                                objectApiName |-> Trim(objectApiNameInput)])
  /\ CapOk
  /\ Toast("")
  /\ UNCHANGED <<connected, configVars, objectVars, whereClause, rowLimit, fields, optionVars,
                 contextVars, _contextFieldValues, _mergeTokens, _configsMap>>
  /\ UNCHANGED <<showDeleteModal, _dragFieldName, tableVars>>

\* handleLoadFields after getDataCloudFields resolved.
LoadFieldsResolve(call) ==
  /\ call \in Calls("getDataCloudFields") /\ call.caller = "handleLoadFields"
  /\ LET fieldData == Schema(call.objectApiName) IN
       IF fieldData = <<>>
         THEN /\ selectedObject' = <<>> /\ fields' = <<>>
              /\ UNCHANGED objectApiNameInput
              /\ Toast("No Fields Found")
         ELSE /\ selectedObject' = call.objectApiName
              /\ objectApiNameInput' = call.objectApiName
              /\ fields' = FieldsFromDiscovery(fieldData)
              /\ Toast("Success")
  /\ isLoading' = FALSE
  /\ pending' = Complete(pending, call)
  /\ UNCHANGED <<connected, configVars, whereClause, rowLimit, optionVars, contextVars,
                 _contextFieldValues, _mergeTokens, _configsMap>>
  /\ UNCHANGED <<showDeleteModal, _dragFieldName, tableVars>>

\* handleLoadFields after getDataCloudFields rejected.
LoadFieldsReject(call) ==
  /\ call \in Calls("getDataCloudFields") /\ call.caller = "handleLoadFields"
  /\ selectedObject' = <<>> /\ fields' = <<>>
  /\ isLoading' = FALSE
  /\ pending' = Complete(pending, call)
  /\ Toast("Invalid Object")
  /\ UNCHANGED <<connected, configVars, objectApiNameInput, whereClause, rowLimit, optionVars,
                 contextVars, _contextFieldValues, _mergeTokens, _configsMap>>
  /\ UNCHANGED <<showDeleteModal, _dragFieldName, tableVars>>

HandleObjectClear ==
  /\ connected
  /\ selectedObject' = <<>> /\ objectApiNameInput' = <<>> /\ fields' = <<>>
  /\ Toast("")
  /\ UNCHANGED <<connected, configVars, whereClause, rowLimit, optionVars, isLoading, contextVars,
                 _contextFieldValues, _mergeTokens, _configsMap, pending>>
  /\ UNCHANGED <<showDeleteModal, _dragFieldName, tableVars>>

\* this.fields.map(f => f.fieldName === fieldName ? change(f) : f).
MapField(fs, fieldName, Change(_)) ==
  [i \in 1..Len(fs) |-> IF fs[i].fieldName = fieldName THEN Change(fs[i]) ELSE fs[i]]

MapAllFields(fs, Change(_)) == [i \in 1..Len(fs) |-> Change(fs[i])]

HandleFieldVisibleChange(fieldName, checked) ==
  /\ connected
  /\ fieldName \in Range(FieldNames(fields))
  /\ fields' = MapField(fields, fieldName, LAMBDA f : [f EXCEPT !.visible = checked])
  /\ Toast("")
  /\ UNCHANGED <<connected, configVars, objectVars, whereClause, rowLimit, optionVars, isLoading,
                 contextVars, _contextFieldValues, _mergeTokens, _configsMap, pending>>
  /\ UNCHANGED <<showDeleteModal, _dragFieldName, tableVars>>

HandleSelectAll ==
  /\ connected
  /\ fields' = MapAllFields(fields, LAMBDA f : [f EXCEPT !.visible = TRUE])
  /\ Toast("")
  /\ UNCHANGED <<connected, configVars, objectVars, whereClause, rowLimit, optionVars, isLoading,
                 contextVars, _contextFieldValues, _mergeTokens, _configsMap, pending>>
  /\ UNCHANGED <<showDeleteModal, _dragFieldName, tableVars>>

HandleDeselectAll ==
  /\ connected
  /\ fields' = MapAllFields(fields, LAMBDA f : [f EXCEPT !.visible = FALSE])
  /\ Toast("")
  /\ UNCHANGED <<connected, configVars, objectVars, whereClause, rowLimit, optionVars, isLoading,
                 contextVars, _contextFieldValues, _mergeTokens, _configsMap, pending>>
  /\ UNCHANGED <<showDeleteModal, _dragFieldName, tableVars>>

\* The call of _fetchContextFieldValues that ends handleWhereChange and
\* handleContextRecordChange: the calls in flight after it.
AfterFetchContextFieldValues(bag, objectApiName, recordId, tokens) ==
  IF FetchGuard(objectApiName, recordId, tokens)
    THEN Issue(bag, FetchCall(objectApiName, recordId, tokens))
    ELSE bag

HandleWhereChange(value) ==
  /\ connected
  /\ whereClause' = value
  /\ _mergeTokens' = ParseMergeTokens(PreviewQueryString(fields, selectedObject, value, rowLimit))
  /\ pending' = (IF contextRecordId # "" /\ _mergeTokens' # <<>>
                   THEN AfterFetchContextFieldValues(pending, contextObjectApiName,
                                                     contextRecordId, _mergeTokens')
                   ELSE pending)
  /\ CapOk
  /\ Toast("")
  /\ UNCHANGED <<connected, configVars, objectVars, rowLimit, fields, optionVars, isLoading,
                 contextVars, _contextFieldValues, _configsMap>>
  /\ UNCHANGED <<showDeleteModal, _dragFieldName, tableVars>>

HandleLimitChange(value) ==
  /\ connected
  /\ rowLimit' = value
  /\ Toast("")
  /\ UNCHANGED <<connected, configVars, objectVars, whereClause, fields, optionVars, isLoading,
                 contextVars, _contextFieldValues, _mergeTokens, _configsMap, pending>>
  /\ UNCHANGED <<showDeleteModal, _dragFieldName, tableVars>>

\* handleContextObjectSearch up to its await of getSearchableObjects, or to
\* its return when the search term is empty.
HandleContextObjectSearch(value) ==
  /\ connected
  /\ contextObjectSearchTerm' = value
  /\ IF contextObjectApiName # <<>>
       THEN /\ contextObjectApiName' = <<>> /\ contextObjectLabel' = <<>>
            /\ contextRecordId' = "" /\ _contextFieldValues' = <<>>
       ELSE UNCHANGED <<contextObjectApiName, contextObjectLabel, contextRecordId,
                        _contextFieldValues>>
  /\ IF Len(value) < 1
       THEN /\ UNCHANGED pending
            /\ Toast("")
       ELSE /\ pending' = Issue(pending, [kind |-> "getSearchableObjects", searchTerm |-> value])
            /\ Toast("")
  /\ CapOk
  /\ UNCHANGED <<connected, configVars, objectVars, whereClause, rowLimit, fields, optionVars,
                 isLoading, _mergeTokens, _configsMap>>
  /\ UNCHANGED <<showDeleteModal, _dragFieldName, tableVars>>

\* handleContextObjectSearch after getSearchableObjects resolved or rejected:
\* it fills or empties the dropdown, which is no state of this model.
ContextObjectSearchSettle(call) ==
  /\ call \in Calls("getSearchableObjects")
  /\ pending' = Complete(pending, call)
  /\ Toast("")
  /\ UNCHANGED <<connected, configVars, objectVars, whereClause, rowLimit, fields, optionVars,
                 isLoading, contextVars, _contextFieldValues, _mergeTokens, _configsMap>>
  /\ UNCHANGED <<showDeleteModal, _dragFieldName, tableVars>>

HandleContextObjectSelect(object) ==
  /\ connected
  /\ contextObjectApiName' = object.apiName
  /\ contextObjectLabel' = object.label
  /\ contextObjectSearchTerm' = object.label \o <<" ", "(">> \o object.apiName \o <<")">>
  /\ contextRecordId' = ""
  /\ _contextFieldValues' = <<>>
  /\ Toast("")
  /\ UNCHANGED <<connected, configVars, objectVars, whereClause, rowLimit, fields, optionVars,
                 isLoading, _mergeTokens, _configsMap, pending>>
  /\ UNCHANGED <<showDeleteModal, _dragFieldName, tableVars>>

\* A slip that keeps the values of the record selected before.
ValuesKept(values) == values

\* this._contextFieldValues = {} of handleContextRecordChange.
ValuesAfterRecordChange(values) == <<>>

HandleContextRecordChange(recordId) ==
  /\ connected
  /\ contextRecordId' = recordId
  /\ _contextFieldValues' = ValuesAfterRecordChange(_contextFieldValues)
  /\ pending' = (IF recordId # "" /\ _mergeTokens # <<>>
                   THEN AfterFetchContextFieldValues(pending, contextObjectApiName,
                                                     recordId, _mergeTokens)
                   ELSE pending)
  /\ CapOk
  /\ Toast("")
  /\ UNCHANGED <<connected, configVars, objectVars, whereClause, rowLimit, fields, optionVars,
                 isLoading, contextObjectApiName, contextObjectLabel,
                 contextObjectSearchTerm, _mergeTokens, _configsMap>>
  /\ UNCHANGED <<showDeleteModal, _dragFieldName, tableVars>>

\* result || {}.
OrEmpty(result) == IF result.isNull THEN <<>> ELSE result.map

\* _fetchContextFieldValues after getRecordFieldValues resolved.
FetchResolve(call, result) ==
  /\ call \in Calls("getRecordFieldValues")
  /\ result \in FetchResults(call)
  /\ _contextFieldValues' = OrEmpty(result)
  /\ pending' = Complete(pending, call)
  /\ Toast("")
  /\ UNCHANGED <<connected, configVars, objectVars, whereClause, rowLimit, fields, optionVars,
                 isLoading, contextVars, _mergeTokens, _configsMap>>
  /\ UNCHANGED <<showDeleteModal, _dragFieldName, tableVars>>

\* this._contextFieldValues = {} of the catch of _fetchContextFieldValues.
ValuesAfterFailedFetch(values) == <<>>

\* _fetchContextFieldValues after getRecordFieldValues rejected.
FetchReject(call) ==
  /\ call \in Calls("getRecordFieldValues")
  /\ _contextFieldValues' = ValuesAfterFailedFetch(_contextFieldValues)
  /\ pending' = Complete(pending, call)
  /\ Toast("Context Error")
  /\ UNCHANGED <<connected, configVars, objectVars, whereClause, rowLimit, fields, optionVars,
                 isLoading, contextVars, _mergeTokens, _configsMap>>
  /\ UNCHANGED <<showDeleteModal, _dragFieldName, tableVars>>

\* ------------------------------------------------------------------------
\* The field list: labels, sortable flags and order
\* ------------------------------------------------------------------------

\* this.fields.findIndex(f => f.fieldName === fieldName), 1-based; 0 when
\* no field has that name.
FindIndex(fs, fieldName) ==
  LET hits == { i \in 1..Len(fs) : fs[i].fieldName = fieldName }
  IN  IF hits = {} THEN 0 ELSE CHOOSE i \in hits : \A j \in hits : i <= j

\* updated.splice(i, 1): the list without its entry i.
RemoveAt(xs, i) == SubSeq(xs, 1, i - 1) \o SubSeq(xs, i + 1, Len(xs))

\* updated.splice(i, 0, x) for the 1-based position i: x becomes entry i.
InsertAt(xs, i, x) == SubSeq(xs, 1, i - 1) \o <<x>> \o SubSeq(xs, i, Len(xs))

\* A slip that inserts above the target wherever the field is dropped.
ReorderAlwaysAbove(fs, dragged, targetFieldName, dropAbove) ==
  LET fromIdx == FindIndex(fs, dragged)
      toIdx == FindIndex(fs, targetFieldName)
  IN  IF dragged = <<>> \/ targetFieldName = dragged \/ fromIdx = 0 \/ toIdx = 0 THEN fs
      ELSE LET updated == RemoveAt(fs, fromIdx)
           IN  InsertAt(updated, FindIndex(updated, targetFieldName), fs[fromIdx])

\* this.fields after handleDrop of the dragged field on the row of the
\* target field, above or below its middle.
Reorder(fs, dragged, targetFieldName, dropAbove) ==
  LET fromIdx == FindIndex(fs, dragged)
      toIdx == FindIndex(fs, targetFieldName)
  IN  IF dragged = <<>> \/ targetFieldName = dragged \/ fromIdx = 0 \/ toIdx = 0 THEN fs
      ELSE LET updated == RemoveAt(fs, fromIdx)
               insertIdx == FindIndex(updated, targetFieldName)
           IN  InsertAt(updated, IF dropAbove THEN insertIdx ELSE insertIdx + 1, fs[fromIdx])

\* A slip that lets the first field move up, past the end of the list.
MoveFieldUpNoBoundary(fs, fieldName) ==
  LET idx == FindIndex(fs, fieldName)
  IN  IF idx = 0 THEN fs
      ELSE IF idx = 1 THEN Tail(fs) \o <<fs[1]>>
      ELSE [i \in 1..Len(fs) |->
              IF i = idx - 1 THEN fs[idx] ELSE IF i = idx THEN fs[idx - 1] ELSE fs[i]]

\* this.fields after handleMoveFieldUp.
MoveFieldUp(fs, fieldName) ==
  LET idx == FindIndex(fs, fieldName)
  IN  IF idx <= 1 THEN fs
      ELSE [i \in 1..Len(fs) |->
              IF i = idx - 1 THEN fs[idx] ELSE IF i = idx THEN fs[idx - 1] ELSE fs[i]]

\* A slip that copies the next entry over the field instead of swapping.
MoveFieldDownCopy(fs, fieldName) ==
  LET idx == FindIndex(fs, fieldName)
  IN  IF idx = 0 \/ idx >= Len(fs) THEN fs
      ELSE [i \in 1..Len(fs) |-> IF i = idx THEN fs[idx + 1] ELSE fs[i]]

\* this.fields after handleMoveFieldDown.
MoveFieldDown(fs, fieldName) ==
  LET idx == FindIndex(fs, fieldName)
  IN  IF idx = 0 \/ idx >= Len(fs) THEN fs
      ELSE [i \in 1..Len(fs) |->
              IF i = idx THEN fs[idx + 1] ELSE IF i = idx + 1 THEN fs[idx] ELSE fs[i]]

\* handleFieldLabelChange.
HandleFieldLabelChange(fieldName, newLabel) ==
  /\ connected
  /\ fieldName \in Range(FieldNames(fields))
  /\ fields' = MapField(fields, fieldName, LAMBDA f : [f EXCEPT !.label = newLabel])
  /\ Toast("")
  /\ UNCHANGED <<connected, configVars, objectVars, whereClause, rowLimit, optionVars, isLoading,
                 contextVars, _contextFieldValues, _mergeTokens, _configsMap, pending,
                 showDeleteModal, _dragFieldName, tableVars>>

\* handleFieldSortableChange.
HandleFieldSortableChange(fieldName, checked) ==
  /\ connected
  /\ fieldName \in Range(FieldNames(fields))
  /\ fields' = MapField(fields, fieldName, LAMBDA f : [f EXCEPT !.sortable = checked])
  /\ IF ~checked /\ defaultSortField = fieldName
       THEN defaultSortField' = <<>>
       ELSE UNCHANGED defaultSortField
  /\ Toast("")
  /\ UNCHANGED <<connected, configVars, objectVars, whereClause, rowLimit, defaultSortDirection,
                 showRecordCount, showSearch, showRefresh, fieldVisibilityFilter, isLoading,
                 contextVars, _contextFieldValues, _mergeTokens, _configsMap, pending,
                 showDeleteModal, _dragFieldName, tableVars>>

\* get sortableFieldOptions: the values of the options, '' (-- None --)
\* first.
sortableFieldOptions ==
  <<<<>>>> \o FieldNames(SelectSeq(fields, LAMBDA f : f.visible /\ f.sortable))

\* handleDefaultSortFieldChange with one of the options of the combobox.
HandleDefaultSortFieldChange(value) ==
  /\ connected
  /\ value \in Range(sortableFieldOptions)
  /\ defaultSortField' = value
  /\ Toast("")
  /\ UNCHANGED <<connected, configVars, objectVars, whereClause, rowLimit, fields,
                 defaultSortDirection, showRecordCount, showSearch, showRefresh,
                 fieldVisibilityFilter, isLoading, contextVars, _contextFieldValues,
                 _mergeTokens, _configsMap, pending, showDeleteModal, _dragFieldName,
                 tableVars>>

\* handleDragStart on the row of a field.
HandleDragStart(fieldName) ==
  /\ connected
  /\ fieldName \in Range(FieldNames(fields))
  /\ _dragFieldName' = fieldName
  /\ Toast("")
  /\ UNCHANGED <<connected, configVars, objectVars, whereClause, rowLimit, fields, optionVars,
                 isLoading, contextVars, _contextFieldValues, _mergeTokens, _configsMap, pending,
                 showDeleteModal, tableVars>>

\* handleDrop on the row of a field, or (onRow false) outside every row.
HandleDrop(onRow, targetFieldName, dropAbove) ==
  /\ connected
  /\ onRow => targetFieldName \in Range(FieldNames(fields))
  /\ IF ~onRow \/ _dragFieldName = <<>> \/ targetFieldName = _dragFieldName
          \/ FindIndex(fields, _dragFieldName) = 0 \/ FindIndex(fields, targetFieldName) = 0
       THEN UNCHANGED <<fields, _dragFieldName>>
       ELSE /\ fields' = Reorder(fields, _dragFieldName, targetFieldName, dropAbove)
            /\ _dragFieldName' = <<>>
  /\ Toast("")
  /\ UNCHANGED <<connected, configVars, objectVars, whereClause, rowLimit, optionVars,
                 isLoading, contextVars, _contextFieldValues, _mergeTokens, _configsMap, pending,
                 showDeleteModal, tableVars>>

\* handleDragEnd.
HandleDragEnd ==
  /\ connected
  /\ _dragFieldName' = <<>>
  /\ Toast("")
  /\ UNCHANGED <<connected, configVars, objectVars, whereClause, rowLimit, fields, optionVars,
                 isLoading, contextVars, _contextFieldValues, _mergeTokens, _configsMap, pending,
                 showDeleteModal, tableVars>>

\* handleMoveFieldUp on the row of a field.
HandleMoveFieldUp(fieldName) ==
  /\ connected
  /\ fieldName \in Range(FieldNames(fields))
  /\ fields' = MoveFieldUp(fields, fieldName)
  /\ Toast("")
  /\ UNCHANGED <<connected, configVars, objectVars, whereClause, rowLimit, optionVars, isLoading,
                 contextVars, _contextFieldValues, _mergeTokens, _configsMap, pending,
                 showDeleteModal, _dragFieldName, tableVars>>

\* handleMoveFieldDown on the row of a field.
HandleMoveFieldDown(fieldName) ==
  /\ connected
  /\ fieldName \in Range(FieldNames(fields))
  /\ fields' = MoveFieldDown(fields, fieldName)
  /\ Toast("")
  /\ UNCHANGED <<connected, configVars, objectVars, whereClause, rowLimit, optionVars, isLoading,
                 contextVars, _contextFieldValues, _mergeTokens, _configsMap, pending,
                 showDeleteModal, _dragFieldName, tableVars>>

\* ------------------------------------------------------------------------
\* Saving and deleting a configuration
\* ------------------------------------------------------------------------

\* JSON.stringify(this.fields) of handleSave, parsed again: the fields as a
\* saved field list.
FieldsToJson(fs) ==
  [i \in 1..Len(fs) |->
     [fieldName |-> fs[i].fieldName, label |-> fs[i].label, visible |-> fs[i].visible,
      sortable |-> IF fs[i].sortable THEN "true" ELSE "false"]]

\* A slip that issues the failed call again.
AfterFailedCallRetry(bag, call) == bag

\* The calls in flight after a call failed and its catch block has run: the
\* catch blocks of handleSave, handleDeleteConfirm and _executeAndRender
\* issue none.
AfterFailedCall(bag, call) == Complete(bag, call)

\* handleNameChange.
HandleNameChange(value) ==
  /\ connected
  /\ configName' = value
  /\ Toast("")
  /\ UNCHANGED <<selectedConfigId, configDescription, objectVars, whereClause, rowLimit, fields,
                 optionVars, isLoading, contextVars, _contextFieldValues, _mergeTokens,
                 _configsMap, pending, connected, showDeleteModal, _dragFieldName, tableVars>>

CopySuffix == <<" ", "-", " ", "C", "o", "p", "y">>

\* handleClone.
HandleClone ==
  /\ connected
  /\ selectedConfigId' = ""
  /\ configName' = configName \o CopySuffix
  /\ Toast("Cloned")
  /\ UNCHANGED <<configDescription, objectVars, whereClause, rowLimit, fields, optionVars,
                 isLoading, contextVars, _contextFieldValues, _mergeTokens, _configsMap,
                 pending, connected, showDeleteModal, _dragFieldName, tableVars>>

\* The configJson of handleSave.
ConfigJson ==
  [objectApiName |-> selectedObject,
   whereClause |-> whereClause,
   limit |-> rowLimit,
   hasFields |-> TRUE,
   fields |-> FieldsToJson(fields),
   defaultSortField |-> defaultSortField,
   defaultSortDirection |-> defaultSortDirection,
   showRecordCount |-> showRecordCount, showSearch |-> showSearch,
   showRefresh |-> showRefresh,
   hasViewState |-> TRUE,
   viewState |-> [fieldVisibilityFilter |-> fieldVisibilityFilter,
                  contextObjectApiName |-> contextObjectApiName,
                  contextObjectLabel |-> contextObjectLabel,
                  contextObjectSearchTerm |-> contextObjectSearchTerm,
                  contextRecordId |-> contextRecordId]]

\* handleSave up to its await of saveConfig, or to its return without a
\* name.  The record carries Id "" when it has no Id.
HandleSave ==
  /\ connected
  /\ IF configName = <<>>
       THEN /\ Toast("Validation Error")
            /\ UNCHANGED <<isLoading, pending>>
       ELSE /\ isLoading' = TRUE
            /\ pending' = Issue(pending,
                 [kind |-> "saveConfig",
                  config |-> [Id |-> selectedConfigId, Name |-> configName,
                              Description__c |-> configDescription,
                              Object_API_Name__c |-> selectedObject,
                              json |-> ConfigJson]])
            /\ Toast("")
  /\ CapOk
  /\ UNCHANGED <<configVars, objectVars, whereClause, rowLimit, fields, optionVars,
                 contextVars, _contextFieldValues, _mergeTokens, _configsMap, connected,
                 showDeleteModal, _dragFieldName, tableVars>>

\* handleSave after saveConfig resolved, up to the await of getConfigs in
\* _loadConfigs: the record keeps its Id, or gets newId when it had none.
SaveResolve(call, newId) ==
  /\ call \in Calls("saveConfig")
  /\ LET id == IF call.config.Id # "" THEN call.config.Id ELSE newId
     IN  /\ selectedConfigId' = id
         /\ pending' = Issue(Complete(pending, call),
              [kind |-> "getConfigs", caller |-> "handleSave",
               config |-> [Id |-> id, Name |-> call.config.Name,
                           Description__c |-> call.config.Description__c,
                           malformed |-> FALSE, json |-> call.config.json]])
  /\ Toast("")
  /\ UNCHANGED <<configName, configDescription, objectVars, whereClause, rowLimit, fields,
                 optionVars, isLoading, contextVars, _contextFieldValues, _mergeTokens,
                 _configsMap, connected, showDeleteModal, _dragFieldName, tableVars>>

\* handleSave after saveConfig rejected.
SaveReject(call) ==
  /\ call \in Calls("saveConfig")
  /\ pending' = AfterFailedCall(pending, call)
  /\ Toast("Save Error")
  /\ isLoading' = FALSE
  /\ UNCHANGED <<configVars, objectVars, whereClause, rowLimit, fields, optionVars,
                 contextVars, _contextFieldValues, _mergeTokens, _configsMap, connected,
                 showDeleteModal, _dragFieldName, tableVars>>

\* handleSave after the getConfigs of its _loadConfigs resolved with the
\* saved record and the others on the server.
SaveListResolve(call, others) ==
  /\ call \in Calls("getConfigs") /\ call.caller = "handleSave"
  /\ _configsMap' = { config \in others : config.Id # call.config.Id } \cup { call.config }
  /\ pending' = Complete(pending, call)
  /\ Toast("Success")
  /\ isLoading' = FALSE
  /\ UNCHANGED <<configVars, objectVars, whereClause, rowLimit, fields, optionVars,
                 contextVars, _contextFieldValues, _mergeTokens, connected,
                 showDeleteModal, _dragFieldName, tableVars>>

\* handleSave after the getConfigs of its _loadConfigs rejected: _loadConfigs
\* shows 'Error' and handleSave goes on to 'Success', the last toast.
SaveListReject(call) ==
  /\ call \in Calls("getConfigs") /\ call.caller = "handleSave"
  /\ pending' = Complete(pending, call)
  /\ Toast("Success")
  /\ isLoading' = FALSE
  /\ UNCHANGED <<configVars, objectVars, whereClause, rowLimit, fields, optionVars,
                 contextVars, _contextFieldValues, _mergeTokens, _configsMap, connected,
                 showDeleteModal, _dragFieldName, tableVars>>

\* handleDeleteClick.
HandleDeleteClick ==
  /\ connected
  /\ showDeleteModal' = TRUE
  /\ Toast("")
  /\ UNCHANGED <<configVars, objectVars, whereClause, rowLimit, fields, optionVars, isLoading,
                 contextVars, _contextFieldValues, _mergeTokens, _configsMap, pending,
                 connected, _dragFieldName, tableVars>>

\* handleDeleteCancel.
HandleDeleteCancel ==
  /\ connected
  /\ showDeleteModal' = FALSE
  /\ Toast("")
  /\ UNCHANGED <<configVars, objectVars, whereClause, rowLimit, fields, optionVars, isLoading,
                 contextVars, _contextFieldValues, _mergeTokens, _configsMap, pending,
                 connected, _dragFieldName, tableVars>>

\* handleDeleteConfirm up to its await of deleteConfig.
HandleDeleteConfirm ==
  /\ connected
  /\ showDeleteModal' = FALSE
  /\ isLoading' = TRUE
  /\ pending' = Issue(pending, [kind |-> "deleteConfig", configId |-> selectedConfigId])
  /\ CapOk
  /\ Toast("")
  /\ UNCHANGED <<configVars, objectVars, whereClause, rowLimit, fields, optionVars,
                 contextVars, _contextFieldValues, _mergeTokens, _configsMap, connected,
                 _dragFieldName, tableVars>>

\* handleDeleteConfirm after deleteConfig resolved, up to the await of
\* getConfigs in _loadConfigs.
DeleteResolve(call) ==
  /\ call \in Calls("deleteConfig")
  /\ Toast("Success")
  /\ NewState
  /\ pending' = Issue(Complete(pending, call),
                      [kind |-> "getConfigs", caller |-> "handleDeleteConfirm",
                       configId |-> call.configId])
  /\ UNCHANGED <<isLoading, _configsMap, connected, showDeleteModal, _dragFieldName, tableVars>>

\* handleDeleteConfirm after deleteConfig rejected.
DeleteReject(call) ==
  /\ call \in Calls("deleteConfig")
  /\ pending' = AfterFailedCall(pending, call)
  /\ Toast("Delete Error")
  /\ isLoading' = FALSE
  /\ UNCHANGED <<configVars, objectVars, whereClause, rowLimit, fields, optionVars,
                 contextVars, _contextFieldValues, _mergeTokens, _configsMap, connected,
                 showDeleteModal, _dragFieldName, tableVars>>

\* handleDeleteConfirm after the getConfigs of its _loadConfigs resolved
\* with the others on the server.
DeleteListResolve(call, others) ==
  /\ call \in Calls("getConfigs") /\ call.caller = "handleDeleteConfirm"
  /\ _configsMap' = { config \in others : config.Id # call.configId }
  /\ pending' = Complete(pending, call)
  /\ Toast("")
  /\ isLoading' = FALSE
  /\ UNCHANGED <<configVars, objectVars, whereClause, rowLimit, fields, optionVars,
                 contextVars, _contextFieldValues, _mergeTokens, connected,
                 showDeleteModal, _dragFieldName, tableVars>>

\* handleDeleteConfirm after the getConfigs of its _loadConfigs rejected.
DeleteListReject(call) ==
  /\ call \in Calls("getConfigs") /\ call.caller = "handleDeleteConfirm"
  /\ pending' = Complete(pending, call)
  /\ Toast("Error")
  /\ isLoading' = FALSE
  /\ UNCHANGED <<configVars, objectVars, whereClause, rowLimit, fields, optionVars,
                 contextVars, _contextFieldValues, _mergeTokens, _configsMap, connected,
                 showDeleteModal, _dragFieldName, tableVars>>

\* ------------------------------------------------------------------------
\* The table (Data360Table): strings, inputs and answers of the platform
\* ------------------------------------------------------------------------

\* String.prototype.includes.
Includes(s, p) == IndexOf(s, p) # 0

\* String.prototype.replace with a string pattern: the first occurrence.
ReplaceFirst(s, p, replacement) ==
  LET i == IndexOf(s, p)
  IN  IF i = 0 THEN s
      ELSE SubSeq(s, 1, i - 1) \o replacement \o SubSeq(s, i + Len(p), Len(s))

\* String.prototype.split with a non-empty separator.
RECURSIVE SplitBy(_, _)
SplitBy(s, sep) ==
  LET i == IndexOf(s, sep)
  IN  IF i = 0 THEN <<s>>
      ELSE <<SubSeq(s, 1, i - 1)>> \o SplitBy(SubSeq(s, i + Len(sep), Len(s)), sep)

Arrow == <<"=", ">">>

\* new Map(pairs): the value of a key is that of its last pair.
MapOfPairs(pairs) ==
  [k \in { pairs[i][1] : i \in 1..Len(pairs) } |->
     pairs[CHOOSE i \in 1..Len(pairs) :
             pairs[i][1] = k /\ \A j \in 1..Len(pairs) : pairs[j][1] = k => j <= i][2]]

\* The Map that _parseColumnLabels and refreshWithQuery build from a string
\* of 'fieldName=>label' segments.
ColumnLabelsMapOf(labelsString) ==
  LET segments == SelectSeq(SplitBy(labelsString, <<",">>), LAMBDA m : Includes(m, Arrow))
  IN  MapOfPairs([i \in 1..Len(segments) |->
                    LET parts == SplitBy(segments[i], Arrow)
                    IN  <<Trim(parts[1]), Trim(parts[2])>>])

\* _parseColumnLabels: the label map after it.
ParseColumnLabels(labelsMap, labelsString) ==
  IF labelsString # <<>> THEN ColumnLabelsMapOf(labelsString) ELSE labelsMap

RecordIdSigil == <<"$", "r", "e", "c", "o", "r", "d", "I", "d">>
CurrentUserIdSigil == <<"$", "C", "u", "r", "r", "e", "n", "t", "U", "s", "e", "r", "I", "d">>
CurrentRecordSigil ==
  <<"$", "C", "u", "r", "r", "e", "n", "t", "R", "e", "c", "o", "r", "d", ".">>

\* The id of the running user (@salesforce/user/Id).
CurrentUserId == <<"u", "1">>

\* `${this.recordId}`: the text of the record id of the page, 'undefined'
\* off a record page.
RecordIdText(recordId) ==
  CASE recordId = "r1" -> <<"r", "1">>
    [] recordId = "r2" -> <<"r", "2">>
    [] OTHER -> <<"u", "n", "d", "e", "f", "i", "n", "e", "d">>

\* query.match(/(\$CurrentRecord\.\w+)/g): the field names of the matches.
RECURSIVE MatchCurrentRecord(_)
MatchCurrentRecord(s) ==
  IF s = <<>> THEN <<>>
  ELSE IF HasAt(s, 1, CurrentRecordSigil)
    THEN LET rest == SubSeq(s, Len(CurrentRecordSigil) + 1, Len(s))
             n == WordRun(rest)
         IN  IF n > 0
               THEN <<SubSeq(rest, 1, n)>> \o MatchCurrentRecord(SubSeq(rest, n + 1, Len(rest)))
               ELSE MatchCurrentRecord(Tail(s))
    ELSE MatchCurrentRecord(Tail(s))

\* this._mergeMap after matches.forEach(... this._mergeMap.set(original, ...)),
\* from an empty map: one entry for each distinct match, in order of first
\* appearance.
MergeMapOf(query, objectName) ==
  LET names == Distinct(MatchCurrentRecord(query))
  IN  [i \in 1..Len(names) |->
         [key |-> CurrentRecordSigil \o names[i],
          fieldApiName |-> names[i],
          objectQualifiedFieldApiName |-> objectName \o <<".">> \o names[i]]]

\* String(value) with null and undefined.
JsString(value) ==
  CASE value.t = "null" -> <<"n", "u", "l", "l">>
    [] value.t = "undefined" -> <<"u", "n", "d", "e", "f", "i", "n", "e", "d">>
    [] OTHER -> ValueToStr(value)

\* dataType.toLowerCase() of the data types of getObjectInfo.
LowerCase(dataType) ==
  CASE dataType = "String" -> "string"
    [] dataType = "Double" -> "double"
    [] dataType = "Boolean" -> "boolean"
    [] OTHER -> dataType

QuotedTypes ==
  { "string", "reference", "picklist", "text", "textarea", "email", "phone", "url" }

\* getObjectInfo: the data types of the fields of a record page's object.
ObjectInfo(objectName) ==
  (sN :> "String") @@ (sK :> "Double") @@ (sNX :> "Boolean")

\* The loop of recordWire: the first occurrence of each key of the merge map
\* replaced by the value of its field, in quotes for the quoted data types.
RECURSIVE MergeRecordValues(_, _, _, _, _)
MergeRecordValues(query, entries, objectName, recordId, info) ==
  IF entries = <<>> THEN query
  ELSE LET config == Head(entries)
           fieldValue == RecordValue(objectName, recordId, config.fieldApiName)
           needsQuotes == LowerCase(info[config.fieldApiName]) \in QuotedTypes
       IN  MergeRecordValues(
             ReplaceFirst(query, config.key,
                          IF needsQuotes THEN <<"'">> \o JsString(fieldValue) \o <<"'">>
                                         ELSE JsString(fieldValue)),
             Tail(entries), objectName, recordId, info)

\* The query of the saved-configuration mode before its merge fields are
\* handled.
ConfigQuery(parsed) ==
  kwSELECT \o Join(FieldNames(VisibleFields(parsed.fields)), <<",", " ">>)
    \o kwFROM \o parsed.objectApiName \o <<" ">> \o parsed.whereClause
    \o kwLIMIT \o ValueToStr(IF Truthy(parsed.limit) THEN parsed.limit ELSE DefaultLimit)

\* The three replacements of connectedCallback: $recordId, $CurrentUserId
\* and '$record.'.
WithMergeFields(query, recordId) ==
  LET q1 == IF Includes(query, RecordIdSigil)
              THEN SplitJoin(query, RecordIdSigil, <<"'">> \o RecordIdText(recordId) \o <<"'">>)
              ELSE query
      q2 == IF Includes(q1, CurrentUserIdSigil)
              THEN SplitJoin(q1, CurrentUserIdSigil, <<"'">> \o CurrentUserId \o <<"'">>)
              ELSE q1
  IN  IF Includes(q2, RecordSigil) THEN SplitJoin(q2, RecordSigil, CurrentRecordSigil) ELSE q2

\* Queries the configurator hands to its preview table.
QueryA == PreviewQueryString(FieldsFromDiscovery(Schema(sA)), sA, <<>>, DefaultLimit)
QueryB == PreviewQueryString(FieldsFromDiscovery(Schema(sB)), sB, <<>>, DefaultLimit)

\* A direct query for the columns Nm and K.
QueryNmK ==
  kwSELECT \o sNm \o <<",", " ">> \o sK \o kwFROM \o sB \o <<" ", " ", "L", "I", "M", "I", "T", " ", "1", "0", "0">>

\* executeQuery: the answer to a query.  A query that selects Nm and K has
\* these two columns and five rows, one of them with a null Nm and one
\* without Nm; a query that selects Id first has the columns Id and Nm, one
\* that selects Nm first has the column Nm, any other has no column and no
\* row; a filter clause leaves the first row.
QueryResult(queryString) ==
  LET withId == HasAt(queryString, 1, kwSELECT \o sId)
      withNm == HasAt(queryString, 1, kwSELECT \o sNm)
      withNmK == HasAt(queryString, 1, kwSELECT \o sNm \o <<",", " ">> \o sK)
      columns == IF withNmK
                   THEN << [fieldName |-> sNm, label |-> <<"N", "m">>],
                           [fieldName |-> sK, label |-> <<"K">>] >>
                 ELSE IF withId
                   THEN << [fieldName |-> sId, label |-> <<"I", "d">>],
                           [fieldName |-> sNm, label |-> <<"N", "m">>] >>
                 ELSE IF withNm THEN << [fieldName |-> sNm, label |-> <<"N", "m">>] >>
                 ELSE <<>>
      rows == IF withNmK
                THEN << (sNm :> StringValue(<<"b">>)) @@ (sK :> NumberValue(10)),
                        (sNm :> NullValue) @@ (sK :> NumberValue(9)),
                        (sNm :> StringValue(<<"a">>)) @@ (sK :> NumberValue(10)),
                        (sNm :> StringValue(<<"b">>)) @@ (sK :> NumberValue(2)),
                        (sK :> NumberValue(7)) >>
              ELSE IF withId
                THEN << (sId :> StringValue(<<"a", "1">>)) @@ (sNm :> StringValue(<<"y">>)),
                        (sId :> StringValue(<<"a", "2">>)) @@ (sNm :> StringValue(<<"x">>)) >>
              ELSE IF withNm
                THEN << (sNm :> StringValue(<<"y">>)), (sNm :> StringValue(<<"x">>)) >>
              ELSE <<>>
  IN  [tableColumns |-> columns,
       tableData |-> IF Includes(queryString, <<"W", "H", "E", "R", "E">>) /\ rows # <<>>
                       THEN <<rows[1]>> ELSE rows]

RowKey == <<"_", "r", "o", "w", "K", "e", "y">>

\* A filter clause with the two singleton placeholders.
WhereIds ==
  <<"W", "H", "E", "R", "E", " ", "r", "=">> \o RecordIdSigil
    \o <<" ", "A", "N", "D", " ", "u", "=">> \o CurrentUserIdSigil

\* Saved configurations the table is pointed at: one with the singleton
\* placeholders and one of which no field is visible.
ConfigIds ==
  [Id |-> "cIds", Name |-> <<"u">>, Description__c |-> <<>>, malformed |-> FALSE,
   json |-> [JsonLegacy EXCEPT !.whereClause = WhereIds]]
ConfigHidden ==
  [Id |-> "cHid", Name |-> <<"h">>, Description__c |-> <<>>, malformed |-> FALSE,
   json |-> [JsonLegacy EXCEPT !.fields = << [fieldName |-> sNm, label |-> <<"m">>,
                                               visible |-> FALSE, sortable |-> "true"] >>]]

\* getConfigByName: the configurations of that name, none when the answer
\* is null.
ConfigsByName(configs, name) == { config \in configs : config.Name = name }

\* ------------------------------------------------------------------------
\* The table: handlers
\* ------------------------------------------------------------------------

\* The configurator's own state, which no handler of the table touches.
configuratorVars ==
  <<configVars, objectVars, whereClause, rowLimit, fields, optionVars, isLoading,
    contextVars, _contextFieldValues, _mergeTokens, _configsMap, connected,
    showDeleteModal, _dragFieldName>>

ExecuteCall(queryString, caller) ==
  [kind |-> "executeQuery", queryString |-> queryString, caller |-> caller]

\* _executeAndRender up to its await of executeQuery.
StartExecuteAndRender(queryString, caller) ==
  /\ tableIsLoading' = TRUE
  /\ errorMessage' = ""
  /\ pending' = Issue(pending, ExecuteCall(queryString, caller))

\* _handleError.
HandleError(title, message) ==
  /\ tableIsLoading' = FALSE
  /\ errorMessage' = message
  /\ Toast(title)

\* connectedCallback of the table up to its first await, or to its return.
TableConnectedCallback ==
  /\ ~tableConnected
  /\ tableConnected' = TRUE
  /\ IF _queryString # <<>>
       THEN /\ _columnLabelsMap' = ParseColumnLabels(_columnLabelsMap, columnLabels)
            /\ StartExecuteAndRender(_queryString, "connectedCallback")
            /\ Toast("")
            /\ UNCHANGED _queryStringInitialized
       ELSE /\ _queryStringInitialized' = TRUE
            /\ UNCHANGED <<_columnLabelsMap, errorMessage>>
            /\ Toast("")
            /\ IF tableConfigName = <<>>
                 THEN UNCHANGED <<tableIsLoading, pending>>
                 ELSE /\ tableIsLoading' = TRUE
                      /\ pending' = Issue(pending, [kind |-> "getConfigByName",
                                                    configName |-> tableConfigName])
  /\ CapOk
  /\ UNCHANGED <<configuratorVars, apiVars, _queryString, resultVars, sortVars, mergeVars,
                 _assembledQuery>>

\* connectedCallback after getConfigByName resolved with one of configs or,
\* when there is none of that name, with null.
GetConfigByNameResolve(call, configs) ==
  /\ call \in Calls("getConfigByName")
  /\ LET found == ConfigsByName(configs, call.configName)
         bag == Complete(pending, call)
     IN  IF found = {}
           THEN /\ HandleError("Config Error", "not found")
                /\ pending' = bag
                /\ UNCHANGED <<_columnLabelsMap, mergeVars, _assembledQuery>>
           ELSE \E config \in found :
             IF config.malformed
               THEN /\ HandleError("Config Error", "Invalid JSON")
                    /\ pending' = bag
                    /\ UNCHANGED <<_columnLabelsMap, mergeVars, _assembledQuery>>
             ELSE IF ~config.json.hasFields
               THEN /\ HandleError("Load Error", "parsed.fields is undefined")
                    /\ pending' = bag
                    /\ UNCHANGED <<_columnLabelsMap, mergeVars, _assembledQuery>>
             ELSE IF VisibleFields(config.json.fields) = <<>>
               THEN /\ HandleError("Config Error", "No visible fields configured")
                    /\ pending' = bag
                    /\ UNCHANGED <<_columnLabelsMap, mergeVars, _assembledQuery>>
             ELSE LET visibleFields == VisibleFields(config.json.fields)
                      query == WithMergeFields(ConfigQuery(config.json), tableRecordId)
                      merge == MergeMapOf(query, tableObjectApiName)
                  IN  /\ _columnLabelsMap' =
                           MapOfPairs([i \in 1..Len(visibleFields) |->
                                         <<visibleFields[i].fieldName, visibleFields[i].label>>])
                      /\ IF Includes(query, CurrentRecordSigil) /\ tableObjectApiName = <<>>
                           THEN /\ HandleError("Config Error",
                                               "$record merge fields require a Record Page")
                                /\ pending' = bag
                                /\ UNCHANGED <<mergeVars, _assembledQuery>>
                         ELSE IF Includes(query, CurrentRecordSigil) /\ merge # <<>>
                           THEN /\ _mergeMap' = merge
                                /\ _assembledQuery' = query
                                /\ _objectApiName' = tableObjectApiName
                                /\ pending' = bag
                                /\ Toast("")
                                /\ UNCHANGED <<tableIsLoading, errorMessage, _objectInfo,
                                               _getRecordFields>>
                         ELSE /\ tableIsLoading' = TRUE
                              /\ errorMessage' = ""
                              /\ pending' = Issue(bag, ExecuteCall(query, "configMode"))
                              /\ Toast("")
                              /\ UNCHANGED <<mergeVars, _assembledQuery>>
  /\ UNCHANGED <<configuratorVars, apiVars, _queryString, _queryStringInitialized, resultVars,
                 sortVars, tableConnected>>

\* connectedCallback after getConfigByName rejected.
GetConfigByNameReject(call) ==
  /\ call \in Calls("getConfigByName")
  /\ HandleError("Load Error", "server error")
  /\ pending' = Complete(pending, call)
  /\ UNCHANGED <<configuratorVars, apiVars, _queryString, _queryStringInitialized, resultVars,
                 sortVars, mergeVars, _assembledQuery, _columnLabelsMap, tableConnected>>

\* objectInfoWire with data.
ObjectInfoWireData ==
  /\ tableConnected
  /\ _objectApiName # <<>>
  /\ IF _mergeMap # <<>>
       THEN /\ _objectInfo' = ObjectInfo(_objectApiName)
            /\ _getRecordFields' =
                 [i \in 1..Len(_mergeMap) |-> _mergeMap[i].objectQualifiedFieldApiName]
       ELSE UNCHANGED <<_objectInfo, _getRecordFields>>
  /\ Toast("")
  /\ UNCHANGED <<configuratorVars, apiVars, _queryString, _queryStringInitialized, resultVars,
                 sortVars, tableIsLoading, errorMessage, _mergeMap, _objectApiName,
                 _assembledQuery, _columnLabelsMap, tableConnected, pending>>

\* objectInfoWire with an error.
ObjectInfoWireError ==
  /\ tableConnected
  /\ _objectApiName # <<>>
  /\ HandleError("Object info error", "wire error")
  /\ UNCHANGED <<configuratorVars, apiVars, _queryString, _queryStringInitialized, resultVars,
                 sortVars, mergeVars, _assembledQuery, _columnLabelsMap, tableConnected,
                 pending>>

\* recordWire with data: the merge fields are replaced and the query is
\* executed.
RecordWireData ==
  /\ tableConnected
  /\ tableRecordId # "" /\ _getRecordFields # <<>>
  /\ StartExecuteAndRender(
       MergeRecordValues(_assembledQuery, _mergeMap, _objectApiName, tableRecordId, _objectInfo),
       "recordWire")
  /\ CapOk
  /\ Toast("")
  /\ UNCHANGED <<configuratorVars, apiVars, _queryString, _queryStringInitialized, resultVars,
                 sortVars, mergeVars, _assembledQuery, _columnLabelsMap, tableConnected>>

\* recordWire with an error.
RecordWireError ==
  /\ tableConnected
  /\ tableRecordId # "" /\ _getRecordFields # <<>>
  /\ HandleError("Record data error", "wire error")
  /\ UNCHANGED <<configuratorVars, apiVars, _queryString, _queryStringInitialized, resultVars,
                 sortVars, mergeVars, _assembledQuery, _columnLabelsMap, tableConnected,
                 pending>>

\* set queryString.
SetQueryString(value) ==
  /\ _queryString' = value
  /\ IF _queryStringInitialized /\ value # <<>> /\ value # _queryString
       THEN /\ _columnLabelsMap' = ParseColumnLabels(_columnLabelsMap, columnLabels)
            /\ StartExecuteAndRender(value, "queryString")
       ELSE UNCHANGED <<_columnLabelsMap, tableIsLoading, errorMessage, pending>>
  /\ CapOk
  /\ Toast("")
  /\ UNCHANGED <<configuratorVars, apiVars, _queryStringInitialized, resultVars, sortVars,
                 mergeVars, _assembledQuery, tableConnected>>

\* refreshWithQuery up to the await of executeQuery.
RefreshWithQuery(queryString, columnLabelsString) ==
  /\ tableConnected
  /\ tableData' = <<>>
  /\ tableColumns' = <<>>
  /\ _columnLabelsMap' = ParseColumnLabels(_columnLabelsMap, columnLabelsString)
  /\ StartExecuteAndRender(queryString, "refreshWithQuery")
  /\ CapOk
  /\ Toast("")
  /\ UNCHANGED <<configuratorVars, apiVars, _queryString, _queryStringInitialized, keyField,
                 sortVars, mergeVars, _assembledQuery, tableConnected>>

\* The rest of the direct-query connectedCallback after its await of
\* _executeAndRender.
AfterExecuteAndRender(call) ==
  IF call.caller = "connectedCallback"
    THEN _queryStringInitialized' = TRUE
    ELSE UNCHANGED _queryStringInitialized

\* A slip that counts the row keys from one.
WithRowKeysFromOne(rows) ==
  [idx \in 1..Len(rows) |->
     (RowKey :> StringValue(<<"r", "o", "w", "-">> \o NatToStr(idx))) @@ rows[idx]]

\* result.tableData.map((row, idx) => ({ ...row, _rowKey: `row-${idx}` })),
\* idx from zero.
WithRowKeys(rows) ==
  [idx \in 1..Len(rows) |->
     (RowKey :> StringValue(<<"r", "o", "w", "-">> \o NatToStr(idx - 1))) @@ rows[idx]]

\* _executeAndRender after executeQuery resolved.
ExecuteResolve(call) ==
  /\ call \in Calls("executeQuery")
  /\ LET result == QueryResult(call.queryString)
         hasId == \E i \in 1..Len(result.tableColumns) : result.tableColumns[i].fieldName = sId
     IN  /\ _assembledQuery' = call.queryString
         /\ tableColumns' =
              [i \in 1..Len(result.tableColumns) |->
                 LET col == result.tableColumns[i]
                     customLabel == IF col.fieldName \in DOMAIN _columnLabelsMap
                                      THEN _columnLabelsMap[col.fieldName] ELSE <<>>
                 IN  [fieldName |-> col.fieldName,
                      label |-> IF customLabel # <<>> THEN customLabel ELSE col.label,
                      sortable |-> TRUE]]
         /\ IF ~hasId /\ Len(result.tableData) > 0
              THEN /\ keyField' = "_rowKey"
                   /\ tableData' = WithRowKeys(result.tableData)
              ELSE /\ keyField' = "Id"
                   /\ tableData' = result.tableData
  /\ tableIsLoading' = FALSE
  /\ AfterExecuteAndRender(call)
  /\ pending' = Complete(pending, call)
  /\ Toast("")
  /\ UNCHANGED <<configuratorVars, apiVars, _queryString, sortVars, errorMessage, mergeVars,
                 _columnLabelsMap, tableConnected>>

\* _executeAndRender after executeQuery rejected.
ExecuteReject(call) ==
  /\ call \in Calls("executeQuery")
  /\ HandleError("Query Error", "server error")
  /\ AfterExecuteAndRender(call)
  /\ pending' = AfterFailedCall(pending, call)
  /\ UNCHANGED <<configuratorVars, apiVars, _queryString, resultVars, sortVars, mergeVars,
                 _assembledQuery, _columnLabelsMap, tableConnected>>

\* ------------------------------------------------------------------------
\* The table: sorting
\* ------------------------------------------------------------------------

\* The characters of the model in the order of their code units.
CodeOrder ==
  <<" ", "$", "'", "(", ")", ",", "-", ".">> \o Digits \o <<"=", ">">>
    \o <<"A", "B", "C", "D", "E", "F", "G", "H", "I", "J", "K", "L", "M",
         "N", "O", "P", "Q", "R", "S", "T", "U", "V", "W", "X", "Y", "Z", "_",
         "a", "b", "c", "d", "e", "f", "g", "h", "i", "j", "k", "l", "m",
         "n", "o", "p", "q", "r", "s", "t", "u", "v", "w", "x", "y", "z">>

CodeOf(char) == CHOOSE i \in 1..Len(CodeOrder) : CodeOrder[i] = char

\* s < t for two strings: by code units, a proper prefix first.
RECURSIVE StringLess(_, _)
StringLess(s, t) ==
  IF t = <<>> THEN FALSE
  ELSE IF s = <<>> THEN TRUE
  ELSE IF Head(s) # Head(t) THEN CodeOf(Head(s)) < CodeOf(Head(t))
  ELSE StringLess(Tail(s), Tail(t))

\* Number(s) of a string of digits, 0 for the empty string.
RECURSIVE StrToNat(_)
StrToNat(s) ==
  IF s = <<>> THEN 0
  ELSE 10 * StrToNat(SubSeq(s, 1, Len(s) - 1)) + (CodeOf(s[Len(s)]) - CodeOf("0"))

IsDigits(s) == \A i \in 1..Len(s) : s[i] \in Range(Digits)

\* x < y of JavaScript for strings and numbers: two strings compare by code
\* units; otherwise both become numbers, and a string that is no number
\* makes the comparison false.
JsLess(x, y) ==
  IF x.t = "string" /\ y.t = "string" THEN StringLess(x.s, y.s)
  ELSE LET numeric(v) == v.t = "number" \/ (v.t = "string" /\ IsDigits(v.s))
           number(v) == IF v.t = "number" THEN v.n ELSE StrToNat(v.s)
       IN  numeric(x) /\ numeric(y) /\ number(x) < number(y)

\* a[fieldName] || ''.
SortValue(row, fieldName) ==
  LET value == Lookup(row, fieldName)
  IN  IF Truthy(value) THEN value ELSE StringValue(<<>>)

\* The comparator of _sortData: -1, 0 or 1 times reverse.
CompareRows(a, b, fieldName, sortDirection) ==
  LET reverse == IF sortDirection = "asc" THEN 1 ELSE -1
      aVal == SortValue(a, fieldName)
      bVal == SortValue(b, fieldName)
  IN  IF JsLess(aVal, bVal) THEN -1 * reverse
      ELSE IF JsLess(bVal, aVal) THEN 1 * reverse
      ELSE 0

\* A slip that sorts ascending whatever the direction.
SortDataAscending(data, fieldName, sortDirection) ==
  LET RECURSIVE sorted(_)
      sorted(n) ==
        IF n = 0 THEN <<>>
        ELSE LET before == sorted(n - 1)
                 later == { i \in 1..Len(before) :
                              CompareRows(data[n], before[i], fieldName, "asc") < 0 }
                 at == IF later = {} THEN Len(before) + 1
                       ELSE CHOOSE i \in later : \A j \in later : i <= j
             IN  InsertAt(before, at, data[n])
  IN  sorted(Len(data))

\* _sortData: Array.prototype.sort is stable, so each row goes behind the
\* rows before it that the comparator does not put after it.
SortData(data, fieldName, sortDirection) ==
  LET RECURSIVE sorted(_)
      sorted(n) ==
        IF n = 0 THEN <<>>
        ELSE LET before == sorted(n - 1)
                 later == { i \in 1..Len(before) :
                              CompareRows(data[n], before[i], fieldName, sortDirection) < 0 }
                 at == IF later = {} THEN Len(before) + 1
                       ELSE CHOOSE i \in later : \A j \in later : i <= j
             IN  InsertAt(before, at, data[n])
  IN  sorted(Len(data))

\* handleSort.
HandleSort(fieldName, sortDirection) ==
  /\ tableConnected
  /\ sortedBy' = fieldName
  /\ sortedDirection' = sortDirection
  /\ tableData' = SortData(tableData, fieldName, sortDirection)
  /\ Toast("")
  /\ UNCHANGED <<configuratorVars, apiVars, _queryString, _queryStringInitialized, tableColumns,
                 keyField, tableIsLoading, errorMessage, mergeVars, _assembledQuery,
                 _columnLabelsMap, tableConnected, pending>>

\* ------------------------------------------------------------------------
\* The configurator resolving merge tokens: one object, a filter clause with
\* a token, one context object with two records, one saved configuration
\* that carries a context record and one whose JSON is malformed.
\* ------------------------------------------------------------------------

\* getConfigs: the saved configurations the server lists.
ServerConfigs == { ConfigContext, ConfigBad }

\* Values of the config picker (event.detail.value): a saved configuration
\* or the '-- New Config --' entry.
ConfigIdInputs == { c.Id : c \in ServerConfigs } \cup { "" }

\* Filter clauses typed into the WHERE box.
WhereInputs == { <<>>, WhereOne }

Next ==
  \/ ConnectedCallback
  \/ \E call \in Calls("getConfigs") : LoadConfigsResolve(call, ServerConfigs)
  \/ \E call \in Calls("getConfigs") : LoadConfigsReject(call)
  \/ HandleNew
  \/ \E configId \in ConfigIdInputs : HandleConfigSelect(configId)
  \/ \E call \in Calls("getDataCloudFields") : ConfigSelectResolve(call)
  \/ \E call \in Calls("getDataCloudFields") : ConfigSelectReject(call)
  \/ \E value \in { <<"B", " ">> } : HandleObjectNameChange(value)
  \/ HandleLoadFields
  \/ \E call \in Calls("getDataCloudFields") : LoadFieldsResolve(call)
  \/ \E call \in Calls("getDataCloudFields") : LoadFieldsReject(call)
  \/ HandleObjectClear
  \/ \E fieldName \in Range(FieldNames(fields)), checked \in BOOLEAN :
       HandleFieldVisibleChange(fieldName, checked)
  \/ HandleSelectAll
  \/ HandleDeselectAll
  \/ \E value \in WhereInputs : HandleWhereChange(value)
  \/ \E value \in { <<>> } : HandleContextObjectSearch(value)
  \/ \E object \in { ContextC } : HandleContextObjectSelect(object)
  \/ \E recordId \in RecordIds : HandleContextRecordChange(recordId)
  \/ \E call \in Calls("getRecordFieldValues") :
       \E result \in FetchResults(call) : FetchResolve(call, result)
  \/ \E call \in Calls("getRecordFieldValues") : FetchReject(call)

Spec == Init /\ [][Next]_vars

\* ------------------------------------------------------------------------
\* Properties of the merge-token resolution
\* ------------------------------------------------------------------------

StatusAwaitingRecord == "select a context record to resolve"
StatusAwaitingValues == "Fetching field value(s)..."
StatusResolved == "token(s) resolved"

HasValues == DOMAIN _contextFieldValues # {}

\* C1: a value map that is not empty holds values fetched for the current
\* context record of the current context object (a fetch that completes
\* after the record was deselected or replaced does not populate the map).
C1_ValuesAreOfCurrentRecord ==
  HasValues =>
    /\ contextObjectApiName # <<>>
    /\ contextRecordId # ""
    /\ \A f \in DOMAIN _contextFieldValues :
         _contextFieldValues[f] = RecordValue(contextObjectApiName, contextRecordId, f)

\* C2: the resolved preview, the string handed to query execution, is empty
\* or holds no $record.<identifier> placeholder.
C2_NoPlaceholderInResolvedPreview == MatchTokens(resolvedPreviewQueryString) = <<>>

\* C3: the status and the resolved preview are decided by the token list,
\* the record id and the value map alone: no tokens, the compiled query as
\* it is; tokens and no record, awaiting the record and no preview; tokens,
\* a record and no values, awaiting the values and no preview; tokens, a
\* record and values, resolved and the query with the tokens substituted.
C3_ResolutionByTokensRecordValues ==
  LET raw == previewQueryString
      shown == resolvedPreviewQueryString
  IN  /\ _mergeTokens = <<>> => mergeTokenStatusText = "" /\ shown = raw
      /\ _mergeTokens # <<>> /\ contextRecordId = "" =>
           mergeTokenStatusText = StatusAwaitingRecord /\ shown = <<>>
      /\ _mergeTokens # <<>> /\ contextRecordId # "" /\ ~HasValues =>
           mergeTokenStatusText = StatusAwaitingValues /\ shown = <<>>
      /\ _mergeTokens # <<>> /\ contextRecordId # "" /\ HasValues =>
           /\ mergeTokenStatusText = StatusResolved
           /\ shown = SubstituteTokens(raw, _mergeTokens, _contextFieldValues)
           /\ raw # <<>> => shown # <<>>

\* Resolved with a compiled query whose placeholder has been substituted.
C3_Witness ==
  /\ _mergeTokens # <<>> /\ contextRecordId # "" /\ HasValues
  /\ previewQueryString # <<>>
  /\ resolvedPreviewQueryString # previewQueryString

\* C6: in the state a failed context-value fetch leaves, with no other fetch
\* in flight, the status does not report the values as still being fetched.
C6_FailedFetchIsNotAwaitingValues ==
  (toast = "Context Error" /\ Calls("getRecordFieldValues") = {}) =>
    mergeTokenStatusText # StatusAwaitingValues

\* C9: a step that changes or clears contextRecordId or contextObjectApiName
\* leaves the value map empty.
C9_ContextChangeClearsValues ==
  [][(contextRecordId' # contextRecordId \/ contextObjectApiName' # contextObjectApiName)
       => _contextFieldValues' = <<>>]_vars

\* The record was replaced while the fetch for the one before is in flight,
\* and the map is empty.
C9_Witness ==
  /\ contextRecordId = "r2"
  /\ _contextFieldValues = <<>>
  /\ \E call \in Calls("getRecordFieldValues") : call.recordId = "r1"

\* The step issues one getRecordFieldValues call.
FetchIssued ==
  \E call \in BagToSet(pending') :
    call.kind = "getRecordFieldValues" /\ pending' = Issue(pending, call)

WhereChangeStep == \E value \in WhereInputs : HandleWhereChange(value)
RecordChangeStep == \E recordId \in RecordIds : HandleContextRecordChange(recordId)

\* C10 as claimed: handleWhereChange and handleContextRecordChange issue a
\* fetch exactly when, after the step, the token list is not empty and a
\* record id is set.
C10_FetchIffTokensAndRecord ==
  [][(WhereChangeStep \/ RecordChangeStep)
       => (FetchIssued <=> (_mergeTokens' # <<>> /\ contextRecordId' # ""))]_vars

\* C10 as amended: ... exactly when, after the step, the token list is not
\* empty, a record id is set and a context object is selected.
C10_FetchIffTokensRecordAndObject ==
  [][(WhereChangeStep \/ RecordChangeStep)
       => (FetchIssued <=> (/\ _mergeTokens' # <<>> /\ contextRecordId' # ""
                            /\ contextObjectApiName' # <<>>))]_vars

\* A fetch for the current tokens of the current record is in flight.
C10_Witness ==
  /\ _mergeTokens # <<>> /\ contextRecordId # "" /\ contextObjectApiName # <<>>
  /\ _contextFieldValues = <<>>
  /\ FetchCall(contextObjectApiName, contextRecordId, _mergeTokens) \in BagToSet(pending)

\* ------------------------------------------------------------------------
\* Properties of loading fields and saved configurations
\* ------------------------------------------------------------------------

\* handleConfigSelect of a configuration whose Config_JSON__c does not parse.
MalformedConfigSelectStep ==
  \E config \in _configsMap : config.malformed /\ HandleConfigSelect(config.Id)

\* C7: loading a configuration whose JSON is malformed leaves the selected
\* config, its name and description, the object, the fields, the filter
\* clause, the row limit and the context selection as they were.
C7_MalformedLoadChangesNothing ==
  [][MalformedConfigSelectStep =>
       UNCHANGED <<selectedConfigId, configName, configDescription, selectedObject,
                   fields, whereClause, rowLimit, contextVars>>]_vars

\* C8: a field list that is not empty is the list discovered for the current
\* selectedObject; in particular there is a selected object.
C8_FieldsAreOfSelectedObject ==
  fields # <<>> =>
    /\ selectedObject # <<>>
    /\ Range(FieldNames(fields)) = Range(FieldNames(Schema(selectedObject)))

\* ------------------------------------------------------------------------
\* The configurator assembling previews: filter clauses with one token, two
\* tokens, a token used twice and tokens whose names share a prefix; a
\* context object with two records, whose fields hold strings, numbers,
\* booleans and null.
\* ------------------------------------------------------------------------

AssembleWhereInputs == { WhereOne, WhereTwo, WherePrefix }

NextAssemble ==
  \/ ConnectedCallback
  \/ \E call \in Calls("getConfigs") : LoadConfigsReject(call)
  \/ \E value \in { <<"B", " ">> } : HandleObjectNameChange(value)
  \/ HandleLoadFields
  \/ \E call \in Calls("getDataCloudFields") : LoadFieldsResolve(call)
  \/ \E value \in AssembleWhereInputs : HandleWhereChange(value)
  \/ \E object \in { ContextC } : HandleContextObjectSelect(object)
  \/ \E recordId \in RecordIds : HandleContextRecordChange(recordId)
  \/ \E call \in Calls("getRecordFieldValues") :
       \E result \in FetchResults(call) : FetchResolve(call, result)

SpecAssemble == Init /\ [][NextAssemble]_vars

\* The preview is resolved: a compiled query, tokens, a record and values.
Resolved ==
  /\ previewQueryString # <<>>
  /\ _mergeTokens # <<>> /\ contextRecordId # "" /\ HasValues

\* s with every placeholder $record.T, T one of tokens, replaced by the
\* literal of T's own value; a placeholder is the sigil and the whole
\* identifier behind it.
RECURSIVE ReplacePlaceholders(_, _, _)
ReplacePlaceholders(s, tokens, values) ==
  IF s = <<>> THEN <<>>
  ELSE LET rest == SubSeq(s, Len(RecordSigil) + 1, Len(s))
           n == IF HasAt(s, 1, RecordSigil) THEN WordRun(rest) ELSE 0
       IN  IF n > 0 /\ SubSeq(rest, 1, n) \in Range(tokens)
             THEN LiteralOf(Lookup(values, SubSeq(rest, 1, n)))
                    \o ReplacePlaceholders(SubSeq(rest, n + 1, Len(rest)), tokens, values)
             ELSE <<Head(s)>> \o ReplacePlaceholders(Tail(s), tokens, values)

\* C4: in the Resolved state every occurrence of every token's placeholder
\* is replaced by the literal of that token's own value, also when one token
\* name is a prefix of another.
C4_EveryPlaceholderGetsItsOwnValue ==
  Resolved =>
    resolvedPreviewQueryString
      = ReplacePlaceholders(previewQueryString, _mergeTokens, _contextFieldValues)

\* The literal the claim gives for a value: NULL for null or absent, the
\* bare text for a number or a boolean, else the text in single quotes as
\* it is.
ClaimedLiteral(value) ==
  CASE value.t = "null" -> <<"N", "U", "L", "L">>
    [] value.t = "undefined" -> <<"N", "U", "L", "L">>
    [] value.t = "number" -> NatToStr(value.n)
    [] value.t = "boolean" /\ value.b -> <<"t", "r", "u", "e">>
    [] value.t = "boolean" /\ ~value.b -> <<"f", "a", "l", "s", "e">>
    [] value.t = "string" -> <<"'">> \o value.s \o <<"'">>

\* C5: the text substituted for a token is decided by its value alone: NULL
\* when null or absent, bare for a number or boolean, else in single quotes
\* with embedded quotes left as they are.
C5_LiteralByValue ==
  Resolved =>
    /\ resolvedPreviewQueryString
         = SubstituteLiterals(previewQueryString, _mergeTokens,
             [token \in Range(_mergeTokens) |->
                ClaimedLiteral(Lookup(_contextFieldValues, token))])
    /\ (whereClause = WhereOne /\ _contextFieldValues = (sN :> StringValue(<<"O", "'", "B">>))) =>
         HasAt(resolvedPreviewQueryString, IndexOf(previewQueryString, RecordSigil),
               <<"'", "O", "'", "B", "'", " ">>)
    /\ (whereClause = WhereTwo /\ _contextFieldValues = (sN :> StringValue(<<"O", "'", "B">>))) =>
         HasAt(resolvedPreviewQueryString, IndexOf(previewQueryString, RecordSigil),
               <<"'", "O", "'", "B", "'", " ", "O", "R", " ", "y", "=", "N", "U", "L", "L", " ">>)

\* A string with a quote in it and a number have been substituted.
C5_Witness ==
  /\ Resolved
  /\ whereClause = WhereTwo
  /\ _mergeTokens = <<sN, sK>>
  /\ _contextFieldValues = (sN :> StringValue(<<"O", "'", "B">>)) @@ (sK :> NumberValue(5))

\* ------------------------------------------------------------------------
\* Properties of failures
\* ------------------------------------------------------------------------

\* The catch of _fetchContextFieldValues runs.
FetchRejectStep == \E call \in Calls("getRecordFieldValues") : FetchReject(call)

\* C11: a failed context-value fetch leaves the value map empty and the
\* token set as it was.
C11_FailedFetchClearsValuesKeepsTokens ==
  [][FetchRejectStep => (_contextFieldValues' = <<>> /\ _mergeTokens' = _mergeTokens)]_vars

\* A fetch has failed while tokens and a record are there.
C11_Witness ==
  /\ toast = "Context Error"
  /\ _mergeTokens # <<>> /\ contextRecordId # ""
  /\ _contextFieldValues = <<>>

\* ------------------------------------------------------------------------
\* The configurator loading saved configurations: saved field lists of up to
\* MaxSaved entries, with fields the schema no longer has and with repeated
\* names, against the two objects; and a configuration saved by an earlier
\* revision.
\* ------------------------------------------------------------------------

\* Entries of a saved field list.
SavedEntries ==
  { [fieldName |-> sNm, label |-> <<"n">>, visible |-> TRUE, sortable |-> "false"],
    [fieldName |-> sId, label |-> <<"i">>, visible |-> FALSE, sortable |-> "absent"],
    [fieldName |-> <<"G">>, label |-> <<"g">>, visible |-> TRUE, sortable |-> "true"],
    [fieldName |-> sNm, label |-> <<"q">>, visible |-> FALSE, sortable |-> "true"] }

SavedLists == UNION { [1..n -> SavedEntries] : n \in 0..MaxSaved }

\* The saved configurations the server may list: ConfigFull with any saved
\* field list and either object, and ConfigLegacy.
ReconcileConfigs ==
  { [ConfigFull EXCEPT !.json.fields = saved, !.json.objectApiName = object] :
      saved \in SavedLists, object \in { sA, sB } }
    \cup { ConfigLegacy }

NextReconcile ==
  \/ ConnectedCallback
  \/ \E call \in Calls("getConfigs") :
       \E config \in ReconcileConfigs : LoadConfigsResolve(call, { config })
  \/ \E config \in _configsMap : HandleConfigSelect(config.Id)
  \/ \E call \in Calls("getDataCloudFields") : ConfigSelectResolve(call)

SpecReconcile == Init /\ [][NextReconcile]_vars

\* A saved configuration is loaded: handleConfigSelect has run to its end.
Loaded(config) ==
  /\ config \in _configsMap
  /\ selectedConfigId = config.Id
  /\ Calls("getDataCloudFields") = {}

HasUniqueNames(fs) ==
  \A i, j \in 1..Len(fs) : fs[i].fieldName = fs[j].fieldName => i = j

\* C15: the reconciled fields have exactly the discovered field names.
C15_ReconciledNamesAreDiscoveredNames ==
  \A config \in _configsMap :
    Loaded(config) =>
      Range(FieldNames(fields)) = Range(FieldNames(Schema(config.json.objectApiName)))

\* A saved list that names a field the schema no longer has and misses one
\* it has is reconciled.
C15_Witness ==
  \E config \in _configsMap :
    /\ Loaded(config)
    /\ config.json.objectApiName = sA
    /\ Range(FieldNames(config.json.fields)) = { sNm, <<"G">> }
    /\ Len(fields) = 2

\* C16: with unique discovered names the reconciled fields have unique
\* names, whatever the saved list.
C16_ReconciledNamesAreUnique ==
  \A config \in _configsMap :
    (Loaded(config) /\ HasUniqueNames(Schema(config.json.objectApiName))) =>
      HasUniqueNames(fields)

C18_ReconcileIsIdempotent ==
  \A config \in _configsMap :
    Loaded(config) /\ config.json.hasFields =>
      ReconcileFields(FieldsToJson(fields), Schema(config.json.objectApiName)) = fields

\* Two saved fields in an order other than the discovered one are kept.
C18_Witness ==
  \E config \in _configsMap :
    /\ Loaded(config)
    /\ config.json.objectApiName = sA
    /\ FieldNames(config.json.fields) = <<sNm, sId>>
    /\ FieldNames(fields) = <<sNm, sId>>

\* C19: a configuration saved by an earlier revision loads without the
\* error toast, and every key it lacks takes its default.
C19_LegacyConfigTakesDefaults ==
  (ConfigLegacy \in _configsMap /\ selectedConfigId = ConfigLegacy.Id) =>
    /\ toast # "Error"
    /\ Loaded(ConfigLegacy) =>
         /\ fields # <<>>
         /\ \A i \in 1..Len(fields) : fields[i].sortable = TRUE
         /\ defaultSortField = <<>>
         /\ defaultSortDirection = "asc"
         /\ ~showRecordCount /\ ~showSearch /\ ~showRefresh
         /\ fieldVisibilityFilter = "all"
         /\ contextObjectApiName = <<>> /\ contextObjectLabel = <<>>
         /\ contextObjectSearchTerm = <<>> /\ contextRecordId = ""
         /\ rowLimit = NumberValue(100)

\* The configuration of the earlier revision is loaded, with its saved label.
C19_Witness ==
  /\ Loaded(ConfigLegacy)
  /\ FieldNames(fields) = <<sNm>>
  /\ fields[1].label = <<"m">>

\* ------------------------------------------------------------------------
\* The configurator discovering fields: an object that has fields and one
\* that has none, typed in or named by a saved configuration; visibility
\* toggles, filter clauses and row limits.
\* ------------------------------------------------------------------------

DiscoveryConfigs == { ConfigLegacy, ConfigGone }

\* Values of the row limit input (event.detail.value).
LimitInputs == { StringValue(<<>>), StringValue(<<"7">>) }

NextDiscovery ==
  \/ ConnectedCallback
  \/ \E call \in Calls("getConfigs") : LoadConfigsResolve(call, DiscoveryConfigs)
  \/ \E config \in _configsMap : HandleConfigSelect(config.Id)
  \/ \E call \in Calls("getDataCloudFields") : ConfigSelectResolve(call)
  \/ \E call \in Calls("getDataCloudFields") : ConfigSelectReject(call)
  \/ \E value \in { sB, sZ } : HandleObjectNameChange(value)
  \/ HandleLoadFields
  \/ \E call \in Calls("getDataCloudFields") : LoadFieldsResolve(call)
  \/ \E call \in Calls("getDataCloudFields") : LoadFieldsReject(call)
  \/ HandleDeselectAll
  \/ HandleSelectAll
  \/ \E value \in WhereInputs : HandleWhereChange(value)
  \/ \E value \in LimitInputs : HandleLimitChange(value)

SpecDiscovery == Init /\ [][NextDiscovery]_vars

\* Schema discovery fails or finds no field, for handleLoadFields or for
\* handleConfigSelect.
DiscoveryFailedStep ==
  \E call \in Calls("getDataCloudFields") :
    \/ LoadFieldsReject(call)
    \/ ConfigSelectReject(call)
    \/ Schema(call.objectApiName) = <<>> /\ LoadFieldsResolve(call)
    \/ Schema(call.objectApiName) = <<>> /\ ConfigSelectResolve(call)

\* C13: when schema discovery fails or returns no field, in handleLoadFields
\* and in handleConfigSelect alike, the field list is cleared and the user
\* is shown a failure.
C13_FailedDiscoveryClearsAndReports ==
  [][DiscoveryFailedStep => (fields' = <<>> /\ toast' # "")]_vars

\* C20: the compiled query is empty whenever no object is selected or no
\* field is visible, whatever the filter clause and the row limit.
C20_NoQueryWithoutObjectOrVisibleField ==
  (selectedObject = <<>> \/ VisibleFields(fields) = <<>>) => previewQueryString = <<>>

\* An object with fields of which none is visible, a filter clause and a
\* row limit.
C20_Witness ==
  /\ selectedObject # <<>> /\ fields # <<>> /\ VisibleFields(fields) = <<>>
  /\ whereClause = WhereOne
  /\ rowLimit = StringValue(<<"7">>)
  /\ previewQueryString = <<>>

\* ------------------------------------------------------------------------
\* The table on a page: direct-query mode and saved-configuration mode, on
\* and off a record page
\* ------------------------------------------------------------------------

LabelsNm == <<"N", "m", "=", ">", "n">>

\* The configurations getConfigByName finds.
TableConfigs == {ConfigContext, ConfigIds, ConfigHidden, ConfigBad, ConfigNoObject}

\* The configName property: the names of TableConfigs and one of no
\* configuration.
TableConfigNames == { config.Name : config \in TableConfigs } \cup { <<"?">> }

\* The table as a page places it: with a query string (and perhaps column
\* labels) or with the name of a configuration, on a record page of object
\* C or on a page without a record.
InitTablePlaced ==
  /\ InitConfigurator
  /\ \E onRecordPage \in BOOLEAN :
       LET recordId == IF onRecordPage THEN "r1" ELSE ""
           objectName == IF onRecordPage THEN ContextC.apiName ELSE <<>>
       IN  \/ \E queryString \in {QueryA, QueryB}, labels \in {<<>>, LabelsNm} :
                InitTable(recordId, objectName, <<>>, labels, queryString)
           \/ \E name \in TableConfigNames :
                InitTable(recordId, objectName, name, <<>>, <<>>)

NextTable ==
  \/ TableConnectedCallback
  \/ \E call \in Calls("getConfigByName") : GetConfigByNameResolve(call, TableConfigs)
  \/ \E call \in Calls("getConfigByName") : GetConfigByNameReject(call)
  \/ ObjectInfoWireData
  \/ ObjectInfoWireError
  \/ RecordWireData
  \/ RecordWireError
  \/ \E value \in {QueryA, QueryB, <<>>} : tableConnected /\ SetQueryString(value)
  \/ \E queryString \in {QueryA, QueryB}, labels \in {<<>>, LabelsNm} :
       RefreshWithQuery(queryString, labels)
  \/ \E call \in Calls("executeQuery") : ExecuteResolve(call)
  \/ \E call \in Calls("executeQuery") : ExecuteReject(call)

SpecTable == InitTablePlaced /\ [][NextTable]_vars

\* get hasData, get hasError.
hasData == ~tableIsLoading /\ errorMessage = "" /\ Len(tableData) > 0
hasError == ~tableIsLoading /\ errorMessage # ""

\* An execution of a query of the table fails.
ExecuteFailedStep == \E call \in Calls("executeQuery") : ExecuteReject(call)

\* C14: when the execution of a query fails in the table, whichever of the
\* initial direct query, a change of queryString, refreshWithQuery, the
\* saved-configuration mode or the record wire started it, the error message
\* is set and the rows of the last successful execution are gone: tableData
\* is empty.
C14_FailedExecutionDiscardsRows ==
  [][ExecuteFailedStep => (errorMessage' # "" /\ tableData' = <<>>)]_vars

\* ------------------------------------------------------------------------
\* The configurator and a table on one page, every call of theirs failing
\* or succeeding
\* ------------------------------------------------------------------------

\* The Id saveConfig gives a record that had none.
NewConfigId == "cNew"

\* The configurator, and a table its page gave the query of object A.
InitPage == InitConfigurator /\ InitTable("", <<>>, <<>>, <<>>, QueryA)

\* No call of the configurator is in flight.
ConfiguratorIdle == \A call \in BagToSet(pending) : call.kind = "executeQuery"

\* The user of the configurator acts when it is idle; the table's host sets
\* its query string at any time.
NextPage ==
  \/ ConnectedCallback
  \/ \E call \in Calls("getConfigs") : LoadConfigsResolve(call, {ConfigContext})
  \/ \E call \in Calls("getConfigs") : LoadConfigsReject(call)
  \/ ConfiguratorIdle /\ HandleConfigSelect(ConfigContext.Id)
  \/ \E call \in Calls("getDataCloudFields") : ConfigSelectResolve(call)
  \/ \E call \in Calls("getDataCloudFields") : ConfigSelectReject(call)
  \/ ConfiguratorIdle /\ HandleLoadFields
  \/ \E call \in Calls("getDataCloudFields") : LoadFieldsResolve(call)
  \/ \E call \in Calls("getDataCloudFields") : LoadFieldsReject(call)
  \/ \E call \in Calls("getRecordFieldValues") :
       \E result \in FetchResults(call) : FetchResolve(call, result)
  \/ \E call \in Calls("getRecordFieldValues") : FetchReject(call)
  \/ ConfiguratorIdle /\ HandleNameChange(<<"s">>)
  \/ ConfiguratorIdle /\ HandleSave
  \/ \E call \in Calls("saveConfig") : SaveResolve(call, NewConfigId)
  \/ \E call \in Calls("saveConfig") : SaveReject(call)
  \/ \E call \in Calls("getConfigs") : SaveListResolve(call, {ConfigContext})
  \/ \E call \in Calls("getConfigs") : SaveListReject(call)
  \/ ConfiguratorIdle /\ HandleDeleteClick
  \/ ConfiguratorIdle /\ HandleDeleteCancel
  \/ ConfiguratorIdle /\ showDeleteModal /\ HandleDeleteConfirm
  \/ \E call \in Calls("deleteConfig") : DeleteResolve(call)
  \/ \E call \in Calls("deleteConfig") : DeleteReject(call)
  \/ \E call \in Calls("getConfigs") : DeleteListResolve(call, {ConfigContext})
  \/ \E call \in Calls("getConfigs") : DeleteListReject(call)
  \/ TableConnectedCallback
  \/ tableConnected /\ SetQueryString(QueryB)
  \/ \E call \in Calls("executeQuery") : ExecuteResolve(call)
  \/ \E call \in Calls("executeQuery") : ExecuteReject(call)

SpecPage == InitPage /\ [][NextPage]_vars

\* A call to an external service fails and the handler that awaited it runs
\* to its end: the listing of the configurations, the discovery of the
\* fields, the fetch of the context values, the save, the delete or the
\* execution of a query.
FailureStep ==
  \/ \E call \in Calls("getConfigs") :
       LoadConfigsReject(call) \/ SaveListReject(call) \/ DeleteListReject(call)
  \/ \E call \in Calls("getDataCloudFields") : ConfigSelectReject(call) \/ LoadFieldsReject(call)
  \/ \E call \in Calls("getRecordFieldValues") : FetchReject(call)
  \/ \E call \in Calls("saveConfig") : SaveReject(call)
  \/ \E call \in Calls("deleteConfig") : DeleteReject(call)
  \/ ExecuteFailedStep

\* C12: no failure triggers a new external call.  The step in which a call
\* to an external service fails (schema discovery, context-value fetch, save,
\* delete, config listing or query execution) issues no call: the calls in
\* flight after it are those before it without the failed one.
C12_FailureIssuesNoCall ==
  [][FailureStep =>
       /\ BagCardinality(pending') = BagCardinality(pending) - 1
       /\ \A call \in BagToSet(pending') : CopiesIn(call, pending') <= CopiesIn(call, pending)]_vars

C12_Witness ==
  /\ toast = "Save Error"
  /\ errorMessage # ""
  /\ pending = EmptyBag

\* ------------------------------------------------------------------------
\* The configurator's field list under its mutations: an object of three
\* fields and one of one field
\* ------------------------------------------------------------------------

\* A label with a comma in it.
LabelComma == <<"a", ",", "b">>

NextFieldSet ==
  \/ ConnectedCallback
  \/ \E call \in Calls("getConfigs") : LoadConfigsResolve(call, {})
  \/ \E value \in {sT, sB} : HandleObjectNameChange(value)
  \/ HandleLoadFields
  \/ \E call \in Calls("getDataCloudFields") : LoadFieldsResolve(call)
  \/ \E fieldName \in Range(FieldNames(fields)), checked \in BOOLEAN :
       HandleFieldVisibleChange(fieldName, checked)
  \/ HandleFieldLabelChange(sNm, LabelComma)
  \/ \E checked \in BOOLEAN : HandleFieldSortableChange(sNm, checked)
  \/ HandleSelectAll
  \/ HandleDeselectAll
  \/ \E fieldName \in Range(FieldNames(fields)) : HandleDragStart(fieldName)
  \/ \E targetFieldName \in Range(FieldNames(fields)), dropAbove \in BOOLEAN :
       HandleDrop(TRUE, targetFieldName, dropAbove)
  \/ HandleDrop(FALSE, <<>>, TRUE)
  \/ HandleDragEnd
  \/ \E fieldName \in Range(FieldNames(fields)) : HandleMoveFieldUp(fieldName)
  \/ \E fieldName \in Range(FieldNames(fields)) : HandleMoveFieldDown(fieldName)
  \/ HandleWhereChange(WhereOne)

SpecFieldSet == Init /\ [][NextFieldSet]_vars

\* The select list of a compiled query: the names between SELECT and FROM.
SelectList(query) ==
  SplitBy(SubSeq(query, Len(kwSELECT) + 1, IndexOf(query, kwFROM) - 1), <<",", " ">>)

\* What follows FROM in a compiled query.
AfterFrom(query) == SubSeq(query, IndexOf(query, kwFROM) + Len(kwFROM), Len(query))

\* C21: a compiled query that is not empty selects exactly the visible
\* fields in the order they have in the field list, whatever reorders, moves
\* and visibility changes came before, and has the filter clause verbatim
\* between the object name and LIMIT.
C21_QuerySelectsVisibleFieldsInOrder ==
  previewQueryString # <<>> =>
    /\ HasAt(previewQueryString, 1, kwSELECT)
    /\ SelectList(previewQueryString) = FieldNames(SelectSeq(fields, LAMBDA f : f.visible))
    /\ HasAt(AfterFrom(previewQueryString), 1,
             selectedObject \o <<" ">> \o whereClause \o kwLIMIT)

C21_Witness ==
  /\ previewQueryString # <<>>
  /\ whereClause = WhereOne
  /\ FieldNames(fields) = <<sG, sNm, sId>>
  /\ FieldNames(VisibleFields(fields)) = <<sG, sId>>

\* ---------------------------------------------------------------------
\* The column labels handed from the configurator to the preview table
\* ---------------------------------------------------------------------

\* get previewColumnLabels: 'fieldName=>label' of the visible fields, joined
\* with commas, '' when no field is visible.
PreviewColumnLabels(fs) ==
  LET visibleFields == VisibleFields(fs)
  IN  IF Len(visibleFields) = 0 THEN <<>>
      ELSE Join([i \in 1..Len(visibleFields) |->
                   visibleFields[i].fieldName \o Arrow \o visibleFields[i].label],
                <<",">>)

previewColumnLabels == PreviewColumnLabels(fields)

\* The map from the name of each visible field to its label.
VisibleLabels(fs) ==
  LET visibleFields == VisibleFields(fs)
  IN  [fieldName \in Range(FieldNames(visibleFields)) |->
         visibleFields[FindIndex(visibleFields, fieldName)].label]

\* C29: whatever the field list, the table's parser reads from the
\* configurator's column-label string exactly the map from the name of
\* each visible field to its label.
C29_ColumnLabelsRoundTrip ==
  VisibleFields(fields) # <<>> =>
    ColumnLabelsMapOf(previewColumnLabels) = VisibleLabels(fields)

\* ------------------------------------------------------------------------
\* The row limit, from the configurator's input to the query of the table
\* that runs the saved configuration
\* ------------------------------------------------------------------------

\* Values of the row limit input: empty, a positive integer, zero, a
\* negative integer and a text that is no number.
LimitTexts ==
  { StringValue(<<>>), StringValue(<<"7">>), StringValue(<<"0">>),
    StringValue(<<"-", "5">>), StringValue(<<"x">>) }

\* The name the configuration is saved under, which is the configName of
\* the table.
SavedName == <<"s">>

InitLimit == InitConfigurator /\ InitTable("", <<>>, SavedName, <<>>, <<>>)

\* The table finds the configurations the configurator's last listing
\* showed.
NextLimit ==
  \/ ConnectedCallback
  \/ \E call \in Calls("getConfigs") : LoadConfigsResolve(call, {})
  \/ HandleObjectNameChange(sB)
  \/ ConfiguratorIdle /\ HandleLoadFields
  \/ \E call \in Calls("getDataCloudFields") : LoadFieldsResolve(call)
  \/ \E value \in LimitTexts : HandleLimitChange(value)
  \/ HandleNameChange(SavedName)
  \/ ConfiguratorIdle /\ HandleSave
  \/ \E call \in Calls("saveConfig") : SaveResolve(call, NewConfigId)
  \/ \E call \in Calls("getConfigs") : SaveListResolve(call, {})
  \/ TableConnectedCallback
  \/ \E call \in Calls("getConfigByName") : GetConfigByNameResolve(call, _configsMap)
  \/ \E call \in Calls("executeQuery") : ExecuteResolve(call)

SpecLimit == InitLimit /\ [][NextLimit]_vars

\* The text behind the LIMIT keyword of a query.
LimitOf(query) == SubSeq(query, IndexOf(query, kwLIMIT) + Len(kwLIMIT), Len(query))

\* A text is a positive integer: digits only, not all of them zero.
IsPositiveInteger(text) ==
  /\ text # <<>>
  /\ \A i \in 1..Len(text) : text[i] \in Range(Digits)
  /\ \E i \in 1..Len(text) : text[i] # "0"

\* C22: the LIMIT of the compiled query is the configured row limit when
\* that is a valid positive integer and 100 when it is zero, empty, missing,
\* negative or no number, in the configurator's preview and in the query the
\* table executes for a saved configuration.
C22_LimitIsPositiveOrDefault ==
  /\ previewQueryString # <<>> =>
       LimitOf(previewQueryString) =
         (IF rowLimit.t = "string" /\ IsPositiveInteger(rowLimit.s)
            THEN rowLimit.s ELSE <<"1", "0", "0">>)
  /\ \A call \in Calls("executeQuery") : IsPositiveInteger(LimitOf(call.queryString))

\* ------------------------------------------------------------------------
\* Properties of the token scan
\* ------------------------------------------------------------------------

\* The positions of a query at which a placeholder starts: the sigil with
\* an identifier character behind it.
PlaceholderPositions(query) ==
  { p \in 1..Len(query) :
      /\ HasAt(query, p, RecordSigil)
      /\ p + Len(RecordSigil) <= Len(query)
      /\ query[p + Len(RecordSigil)] \in WordChars }

\* The identifier of the placeholder at position p.
PlaceholderName(query, p) ==
  LET rest == SubSeq(query, p + Len(RecordSigil), Len(query))
  IN  SubSeq(rest, 1, WordRun(rest))

\* The first position at which the placeholder of a field name starts.
FirstPosition(query, fieldName) ==
  LET hits == { p \in PlaceholderPositions(query) : PlaceholderName(query, p) = fieldName }
  IN  CHOOSE p \in hits : \A q \in hits : p <= q

\* C23: the token scan of a compiled query yields every field name that
\* has a placeholder $record.<identifier> in it, each exactly once, in the
\* order of their first appearance; of an empty query or one without
\* placeholder it yields nothing.
C23_ScanYieldsDistinctTokensInOrder ==
  LET query == previewQueryString
      tokens == ParseMergeTokens(query)
  IN  /\ Range(tokens) = { PlaceholderName(query, p) : p \in PlaceholderPositions(query) }
      /\ \A i, j \in 1..Len(tokens) :
           i < j => /\ tokens[i] # tokens[j]
                    /\ FirstPosition(query, tokens[i]) < FirstPosition(query, tokens[j])
      /\ (query = <<>> \/ PlaceholderPositions(query) = {}) => tokens = <<>>

C23_Witness ==
  /\ whereClause = WhereTwo
  /\ previewQueryString # <<>>
  /\ Cardinality(PlaceholderPositions(previewQueryString)) = 3
  /\ _mergeTokens = <<sN, sK>>
  /\ _mergeTokens = ParseMergeTokens(previewQueryString)

\* ------------------------------------------------------------------------
\* Properties of the field list
\* ------------------------------------------------------------------------

\* A handler changes the field list in place: visibility, sortable flag,
\* label, select all, deselect all, move up, move down or a drop.
FieldSetMutationStep ==
  \/ \E fieldName \in Range(FieldNames(fields)), checked \in BOOLEAN :
       \/ HandleFieldVisibleChange(fieldName, checked)
       \/ HandleFieldSortableChange(fieldName, checked)
  \/ \E fieldName \in Range(FieldNames(fields)) :
       \/ HandleFieldLabelChange(fieldName, LabelComma)
       \/ HandleMoveFieldUp(fieldName)
       \/ HandleMoveFieldDown(fieldName)
       \/ \E dropAbove \in BOOLEAN : HandleDrop(TRUE, fieldName, dropAbove)
  \/ HandleSelectAll
  \/ HandleDeselectAll

\* C24: a mutation of a field list of unique field names (toggle visible,
\* toggle sortable, relabel, select all, deselect all, move up, move down,
\* drag-and-drop reorder) leaves its length and its set of field names as
\* they are, each name still exactly once.
C24_MutationsKeepTheFieldNames ==
  [][(FieldSetMutationStep /\ HasUniqueNames(fields)) =>
       /\ Len(fields') = Len(fields)
       /\ Range(FieldNames(fields')) = Range(FieldNames(fields))
       /\ HasUniqueNames(fields')]_vars

C24_Witness ==
  /\ FieldNames(fields) = <<sNm, sG, sId>>
  /\ fields[1].label = LabelComma /\ ~fields[1].sortable
  /\ ~fields[2].visible /\ fields[3].visible
  /\ _dragFieldName = <<>>

\* A field list without the field of a name.
WithoutField(fs, fieldName) == SelectSeq(fs, LAMBDA f : f.fieldName # fieldName)

\* The names a drag or a drop can carry: those of the fields and one that
\* no field has.
DragNames == Range(FieldNames(fields)) \cup {sZ}

\* C25: the reorder of handleDrop puts the moved field immediately before
\* the target (dropped above) or immediately after it (dropped below) and
\* keeps the relative order of all the other fields; when a name is missing
\* or the moved field is the target the list stays as it is.
C25_DropPutsFieldNextToTarget ==
  \A dragged \in DragNames, targetFieldName \in DragNames, dropAbove \in BOOLEAN :
    LET names == Range(FieldNames(fields))
        updated == Reorder(fields, dragged, targetFieldName, dropAbove)
    IN  IF dragged = targetFieldName \/ dragged \notin names \/ targetFieldName \notin names
          THEN updated = fields
          ELSE /\ WithoutField(updated, dragged) = WithoutField(fields, dragged)
               /\ Len(updated) = Len(fields)
               /\ FindIndex(updated, dragged) =
                    FindIndex(updated, targetFieldName) + (IF dropAbove THEN -1 ELSE 1)
               /\ updated[FindIndex(updated, dragged)] = fields[FindIndex(fields, dragged)]

C25_Witness ==
  /\ FieldNames(fields) = <<sG, sId, sNm>>
  /\ _dragFieldName = sG
  /\ ~fields[1].visible

\* C26: moving a field that is not the first entry up and then down gives
\* the original order back; moving the first entry up, the last entry down
\* or a field that is not in the list leaves the list as it is.
C26_MoveUpThenDownRestores ==
  \A fieldName \in DragNames :
    LET idx == FindIndex(fields, fieldName)
    IN  /\ idx > 1 => MoveFieldDown(MoveFieldUp(fields, fieldName), fieldName) = fields
        /\ idx <= 1 => MoveFieldUp(fields, fieldName) = fields
        /\ (idx = 0 \/ idx = Len(fields)) => MoveFieldDown(fields, fieldName) = fields

C26_Witness ==
  /\ FieldNames(fields) = <<sNm, sId, sG>>
  /\ \A i \in 1..Len(fields) : fields[i].visible
  /\ _dragFieldName = <<>>
  /\ MoveFieldUp(fields, sId) # fields

\* ------------------------------------------------------------------------
\* The table in direct-query mode with its rows sorted by the user
\* ------------------------------------------------------------------------

InitSort ==
  /\ InitConfigurator
  /\ \E queryString \in {QueryNmK, QueryA} : InitTable("", <<>>, <<>>, <<>>, queryString)

NextSort ==
  \/ TableConnectedCallback
  \/ \E value \in {QueryNmK, QueryA, QueryB} : tableConnected /\ SetQueryString(value)
  \/ \E queryString \in {QueryNmK} : RefreshWithQuery(queryString, <<>>)
  \/ \E call \in Calls("executeQuery") : ExecuteResolve(call)
  \/ \E call \in Calls("executeQuery") : ExecuteReject(call)
  \/ \E i \in 1..Len(tableColumns), sortDirection \in {"asc", "desc"} :
       HandleSort(tableColumns[i].fieldName, sortDirection)

SpecSort == InitSort /\ [][NextSort]_vars

\* The rows and columns shown have no column Id.
ShowsRowsWithoutId ==
  /\ tableData # <<>>
  /\ tableColumns # <<>>
  /\ \A i \in 1..Len(tableColumns) : tableColumns[i].fieldName # sId

\* The key 'row-<index>'.
RowKeyOf(index) == StringValue(<<"r", "o", "w", "-">> \o NatToStr(index))

\* C27: when the executed result has no column Id and at least one row, the
\* key field is '_rowKey' and the row of index i of the result carries the
\* key 'row-<i>', pairwise distinct and kept through every sort; with a
\* column Id the key field is 'Id'.
C27_RowKeysAreSynthesizedAndKept ==
  /\ ShowsRowsWithoutId =>
       LET result == QueryResult(_assembledQuery).tableData
       IN  /\ keyField = "_rowKey"
           /\ Len(tableData) = Len(result)
           /\ \A i, j \in 1..Len(tableData) :
                i # j => tableData[i][RowKey] # tableData[j][RowKey]
           /\ \A i \in 1..Len(tableData) :
                \E index \in 0..(Len(result) - 1) :
                  tableData[i] = (RowKey :> RowKeyOf(index)) @@ result[index + 1]
  /\ (\E i \in 1..Len(tableColumns) : tableColumns[i].fieldName = sId) => keyField = "Id"

C27_Witness ==
  /\ ShowsRowsWithoutId
  /\ Len(tableData) = 5
  /\ sortedBy = sNm /\ sortedDirection = "desc"
  /\ tableData[1][RowKey] # RowKeyOf(0)

\* The user sorts the table.
HandleSortStep ==
  \E i \in 1..Len(tableColumns), sortDirection \in {"asc", "desc"} :
    HandleSort(tableColumns[i].fieldName, sortDirection)

\* The value a row is ordered by: the empty string when the field is
\* missing or null.
OrderValue(row, fieldName) ==
  IF fieldName \notin DOMAIN row \/ row[fieldName].t = "null"
    THEN StringValue(<<>>) ELSE row[fieldName]

\* The position of a row in a list of rows that are pairwise different.
PositionOf(rows, row) == CHOOSE i \in 1..Len(rows) : rows[i] = row

\* C28: handleSort replaces tableData by a permutation of its rows ordered
\* by the value of the field, non-decreasing for 'asc' and non-increasing
\* for 'desc', a missing or null value taken as the empty string and rows of
\* equal value in the order they had; it issues no query execution.
C28_SortIsStablePermutationWithoutQuery ==
  [][HandleSortStep =>
       /\ Len(tableData') = Len(tableData)
       /\ \A i \in 1..Len(tableData) :
            Cardinality({ j \in 1..Len(tableData') : tableData'[j] = tableData[i] })
              = Cardinality({ j \in 1..Len(tableData) : tableData[j] = tableData[i] })
       /\ \A i, j \in 1..Len(tableData') :
            i < j =>
              LET first == OrderValue(tableData'[i], sortedBy')
                  second == OrderValue(tableData'[j], sortedBy')
              IN  /\ sortedDirection' = "asc" => ~JsLess(second, first)
                  /\ sortedDirection' = "desc" => ~JsLess(first, second)
                  /\ (~JsLess(first, second) /\ ~JsLess(second, first)) =>
                       PositionOf(tableData, tableData'[i]) < PositionOf(tableData, tableData'[j])
       /\ pending' = pending]_vars

C28_Witness ==
  /\ Len(tableData) = 5
  /\ sortedBy = sNm /\ sortedDirection = "asc"
  /\ [i \in 1..5 |-> tableData[i][RowKey]] =
       <<RowKeyOf(4), RowKeyOf(1), RowKeyOf(2), RowKeyOf(3), RowKeyOf(0)>>

\* ------------------------------------------------------------------------
\* The table running saved configurations whose filter has placeholders
\* ------------------------------------------------------------------------

\* A filter clause that uses the token of field N twice.
WhereRepeat == WhereOne \o <<" ", "O", "R", " ", "y", "=">> \o RecordSigil \o sN

\* Saved configurations: one token (ConfigContext), two tokens with the
\* first of them twice, one token twice, the two singleton placeholders, and
\* no filter clause.
ConfigTwo ==
  [Id |-> "cTwo", Name |-> <<"t">>, Description__c |-> <<>>, malformed |-> FALSE,
   json |-> [JsonLegacy EXCEPT !.whereClause = WhereTwo]]
ConfigRepeat ==
  [Id |-> "cRep", Name |-> <<"r">>, Description__c |-> <<>>, malformed |-> FALSE,
   json |-> [JsonLegacy EXCEPT !.whereClause = WhereRepeat]]
RuntimeConfigs == {ConfigContext, ConfigTwo, ConfigRepeat, ConfigIds, ConfigLegacy}

\* The table placed with the name of a configuration, on a record page of
\* object C or on a page without a record.
InitRuntime ==
  /\ InitConfigurator
  /\ \E onRecordPage \in BOOLEAN, config \in RuntimeConfigs :
       InitTable(IF onRecordPage THEN "r1" ELSE "",
                 IF onRecordPage THEN ContextC.apiName ELSE <<>>,
                 config.Name, <<>>, <<>>)

NextRuntime ==
  \/ TableConnectedCallback
  \/ \E call \in Calls("getConfigByName") : GetConfigByNameResolve(call, RuntimeConfigs)
  \/ \E call \in Calls("getConfigByName") : GetConfigByNameReject(call)
  \/ ObjectInfoWireData
  \/ ObjectInfoWireError
  \/ RecordWireData
  \/ RecordWireError
  \/ \E call \in Calls("executeQuery") : ExecuteResolve(call)
  \/ \E call \in Calls("executeQuery") : ExecuteReject(call)

SpecRuntime == InitRuntime /\ [][NextRuntime]_vars

\* The placeholder texts of a filter clause, and '$CurrentRecord.' that the
\* table writes for '$record.'.
PlaceholderTexts == {RecordIdSigil, CurrentUserIdSigil, RecordSigil, CurrentRecordSigil}

\* The configuration the table was placed with.
PlacedConfig == CHOOSE config \in RuntimeConfigs : config.Name = tableConfigName

\* C30: a query the table executes for a saved configuration holds no
\* placeholder text, and a configuration with '$record.' tokens on a page
\* without a record-page object executes nothing and, once loaded, shows an
\* error.
C30_ExecutedQueriesHoldNoPlaceholder ==
  /\ \A call \in Calls("executeQuery") :
       \A text \in PlaceholderTexts : ~Includes(call.queryString, text)
  /\ (Includes(PlacedConfig.json.whereClause, RecordSigil) /\ tableObjectApiName = <<>>) =>
       /\ Calls("executeQuery") = {}
       /\ (tableConnected /\ Calls("getConfigByName") = {}) => errorMessage # ""

\* ------------------------------------------------------------------------
\* The value map and the token set it was fetched for
\* ------------------------------------------------------------------------

\* C31: when the resolved preview is not empty and there are tokens, the
\* value map comes from a fetch that asked for every token of the token
\* set: each token has an entry in it, and no token is shown as NULL only
\* because the fetch that asks for it has not answered yet.
C31_ValuesCoverTheTokens ==
  (resolvedPreviewQueryString # <<>> /\ _mergeTokens # <<>>) =>
    Range(_mergeTokens) \subseteq DOMAIN _contextFieldValues

\* C32: whenever the status is that of awaiting values (tokens, a record
\* id, an empty value map), a getRecordFieldValues call is in flight, also
\* after a fetch failed or answered null and after a configuration with a
\* record id in its view state was loaded.
C32_AwaitingValuesHasFetchInFlight ==
  mergeTokenStatusText = StatusAwaitingValues => Calls("getRecordFieldValues") # {}

\* ------------------------------------------------------------------------
\* The table when its host changes the query string while executions are
\* in flight
\* ------------------------------------------------------------------------

LatestQueries == {QueryA, QueryB, QueryNmK}

\* The table placed with a query string.
InitLatest ==
  /\ InitConfigurator
  /\ \E queryString \in LatestQueries : InitTable("", <<>>, <<>>, <<>>, queryString)

\* The host sets queryString to a query at any time; it is the only source
\* of queries here, so _queryString is the query supplied last.
NextLatest ==
  \/ TableConnectedCallback
  \/ \E value \in LatestQueries : SetQueryString(value)
  \/ \E call \in Calls("executeQuery") : ExecuteResolve(call)
  \/ \E call \in Calls("executeQuery") : ExecuteReject(call)

SpecLatest == InitLatest /\ [][NextLatest]_vars

\* C33: once no executeQuery call is in flight (and the last one to
\* complete did not fail), the table shows the result of the query string
\* supplied last, whatever the order in which the calls completed and also
\* when the query string changed while the first execution was pending.
C33_TableShowsLatestQuery ==
  (tableConnected /\ Calls("executeQuery") = {} /\ errorMessage = "") =>
    LET result == QueryResult(_queryString)
    IN  /\ FieldNames(tableColumns) = FieldNames(result.tableColumns)
        /\ tableData = IF keyField = "_rowKey" THEN WithRowKeys(result.tableData)
                                               ELSE result.tableData

\* ------------------------------------------------------------------------
\* The configurator when discoveries, saves and deletes overlap
\* ------------------------------------------------------------------------

\* The user does not wait for a call to answer before the next click.
NextOverlap ==
  \/ ConnectedCallback
  \/ \E call \in Calls("getConfigs") : LoadConfigsResolve(call, {})
  \/ \E value \in { <<"B", " ">> } : HandleObjectNameChange(value)
  \/ HandleLoadFields
  \/ \E call \in Calls("getDataCloudFields") : LoadFieldsResolve(call)
  \/ \E call \in Calls("getDataCloudFields") : LoadFieldsReject(call)
  \/ HandleNameChange(SavedName)
  \/ HandleSave
  \/ \E call \in Calls("saveConfig") : SaveResolve(call, NewConfigId)
  \/ \E call \in Calls("saveConfig") : SaveReject(call)
  \/ \E call \in Calls("getConfigs") : SaveListResolve(call, {})
  \/ \E call \in Calls("getConfigs") : SaveListReject(call)
  \/ HandleDeleteClick
  \/ showDeleteModal /\ HandleDeleteConfirm
  \/ \E call \in Calls("deleteConfig") : DeleteResolve(call)
  \/ \E call \in Calls("deleteConfig") : DeleteReject(call)
  \/ \E call \in Calls("getConfigs") : DeleteListResolve(call, {})
  \/ \E call \in Calls("getConfigs") : DeleteListReject(call)

SpecOverlap == Init /\ [][NextOverlap]_vars

\* A discovery, a save or a delete has not finished: its call, or the
\* listing of the configurations that a save or a delete awaits before it
\* ends, is in flight.
OperationInFlight ==
  \E call \in BagToSet(pending) :
    \/ call.kind \in {"getDataCloudFields", "saveConfig", "deleteConfig"}
    \/ call.kind = "getConfigs" /\ call.caller \in {"handleSave", "handleDeleteConfirm"}

\* C34: isLoading is true exactly while a field discovery, a save or a
\* delete is in flight, also when two of them overlap.
C34_LoadingWhileOperationInFlight == isLoading <=> OperationInFlight

\* ------------------------------------------------------------------------
\* The default sort field while the field list changes
\* ------------------------------------------------------------------------

NextDefaultSort ==
  \/ ConnectedCallback
  \/ \E call \in Calls("getConfigs") : LoadConfigsResolve(call, {})
  \/ \E value \in {sT, sB} : HandleObjectNameChange(value)
  \/ HandleLoadFields
  \/ \E call \in Calls("getDataCloudFields") : LoadFieldsResolve(call)
  \/ HandleObjectClear
  \/ \E fieldName \in Range(FieldNames(fields)), checked \in BOOLEAN :
       HandleFieldVisibleChange(fieldName, checked)
  \/ \E fieldName \in Range(FieldNames(fields)), checked \in BOOLEAN :
       HandleFieldSortableChange(fieldName, checked)
  \/ HandleSelectAll
  \/ HandleDeselectAll
  \/ \E value \in Range(sortableFieldOptions) : HandleDefaultSortFieldChange(value)

SpecDefaultSort == Init /\ [][NextDefaultSort]_vars

\* C35: the default sort field is empty or is one of the offered options:
\* the name of a field of the list that is visible and sortable.
C35_DefaultSortFieldIsAnOption == defaultSortField \in Range(sortableFieldOptions)

\* ------------------------------------------------------------------------
\* Saving a configuration and loading it again
\* ------------------------------------------------------------------------

\* Values typed as the row limit: nothing, or 7.
RoundTripLimits == { StringValue(<<>>), StringValue(<<"7">>) }

\* The user acts when no call of the configurator is in flight; the server
\* lists the configurations this configurator saved.
NextRoundTrip ==
  \/ ConnectedCallback
  \/ \E call \in Calls("getConfigs") : LoadConfigsResolve(call, {})
  \/ ConfiguratorIdle /\ HandleNew
  \/ ConfiguratorIdle /\ HandleObjectNameChange(sB)
  \/ ConfiguratorIdle /\ HandleLoadFields
  \/ \E call \in Calls("getDataCloudFields") : LoadFieldsResolve(call)
  \/ ConfiguratorIdle /\ \E checked \in BOOLEAN : HandleFieldVisibleChange(sNm, checked)
  \/ ConfiguratorIdle /\ \E checked \in BOOLEAN : HandleFieldSortableChange(sNm, checked)
  \/ ConfiguratorIdle /\ HandleFieldLabelChange(sNm, LabelComma)
  \/ ConfiguratorIdle /\ \E value \in RoundTripLimits : HandleLimitChange(value)
  \/ ConfiguratorIdle /\ HandleNameChange(SavedName)
  \/ ConfiguratorIdle /\ HandleSave
  \/ \E call \in Calls("saveConfig") : SaveResolve(call, NewConfigId)
  \/ \E call \in Calls("getConfigs") : SaveListResolve(call, {})
  \/ ConfiguratorIdle /\ HandleConfigSelect(NewConfigId)
  \/ \E call \in Calls("getDataCloudFields") : ConfigSelectResolve(call)

SpecRoundTrip == Init /\ [][NextRoundTrip]_vars

\* C36: when a load of a configuration that handleSave saved completes,
\* the state is the saved one: object name, filter clause, row limit, sort
\* defaults, display options, view state, and the order, visible, label and
\* sortable of every field.
C36_SaveThenLoadRoundTrips ==
  [][ /\ \A call \in Calls("getDataCloudFields") :
           ConfigSelectResolve(call) => ConfigJson' = call.parsed
      /\ \A config \in _configsMap :
           (config.json.objectApiName = <<>> /\ HandleConfigSelect(config.Id)) =>
             ConfigJson' = config.json ]_vars

\* ------------------------------------------------------------------------
\* Cloning a configuration and saving the copy
\* ------------------------------------------------------------------------

\* The name handleClone gives the copy of ConfigLegacy.
CopyName == ConfigLegacy.Name \o CopySuffix

\* The user loads the saved configuration, saves it, clones it and saves
\* again, without waiting for the calls to answer; a configuration is cloned
\* once.
NextClone ==
  \/ ConnectedCallback
  \/ \E call \in Calls("getConfigs") : LoadConfigsResolve(call, {ConfigLegacy})
  \/ HandleConfigSelect(ConfigLegacy.Id)
  \/ \E call \in Calls("getDataCloudFields") : ConfigSelectResolve(call)
  \/ configName = ConfigLegacy.Name /\ HandleClone
  \/ HandleSave
  \/ \E call \in Calls("saveConfig") : SaveResolve(call, NewConfigId)
  \/ \E call \in Calls("saveConfig") : SaveReject(call)
  \/ \E call \in Calls("getConfigs") : SaveListResolve(call, {ConfigLegacy})

SpecClone == Init /\ [][NextClone]_vars

\* No save of the copy has been started and not failed: no record of its
\* name is listed, is being listed or is being saved.
CopyNotSaved ==
  /\ \A config \in _configsMap : config.Name # CopyName
  /\ \A call \in BagToSet(pending) :
       call.kind \in {"saveConfig", "getConfigs"} /\ "config" \in DOMAIN call =>
         call.config.Name # CopyName

\* handleSave is clicked with the name of the copy.
SaveOfCopyStep == configName = CopyName /\ HandleSave

\* C37: the save that follows handleClone passes saveConfig a record
\* without an Id, also when a save of the original was in flight when the
\* configuration was cloned.
C37_SaveAfterCloneCarriesNoId ==
  [][ (CopyNotSaved /\ SaveOfCopyStep) =>
        \A call \in BagToSet(pending') :
          (call.kind = "saveConfig" /\ call.config.Name = CopyName) => call.config.Id = "" ]_vars

====
